---- MODULE Spec2Model ----
(***************************************************************************)
(* A model of jira-changelog: the commit-graph reduction and the revert    *)
(* resolution (SourceControl.simpleTopLevelGraph, isRevert and             *)
(* consolodateCommitMessages, template.filterRevertedCommits), the         *)
(* template data (decorateTicketReverts, groupTicketsByStatus,             *)
(* transformCommitLogs) and the ticket lookup of class Jira.               *)
(*                                                                         *)
(* Strings are sequences of pieces.  A piece is either a single character  *)
(* or one of the two literals the revert pattern looks for.  A commit hash *)
(* is a natural number; 0 is the hash of a commit outside the input.       *)
(* A property key (the string by which the `hashes` object is indexed) is  *)
(* a sequence of hashes: <<h>> is the hash h, <<>> is the empty string and *)
(* <<h1, h2>> is the text "h1,h2" an array of two hashes is coerced to.    *)
(***************************************************************************)
EXTENDS Integers, Sequences, FiniteSets, TLC

VARIABLES
  impl,     \* which of the two revisions of class SourceControl is loaded
  logs,     \* the input of simpleTopLevelGraph (response.all)
  pc,       \* position of the caller (getCommitLogs / a test)
  graph,    \* the list returned by simpleTopLevelGraph, then consolidated
  log,      \* the commit log whose text isRevert or the ticket parser examines
  ret,      \* what isRevert or parseTicketsFromString returned
  commits,  \* the input of filterRevertedCommits (objects, mutated in place)
  filtered, \* the list returned by filterRevertedCommits
  tickets,  \* Jira ticket objects (mutated in place)
  config,   \* the config object
  data,     \* what a function of template.js returned
  changelog, \* the commit logs handed to Jira.generate
  jira,     \* the Jira instance and the promises of its generate call
  call,     \* the locals of a simpleTopLevelGraph call that runs step by step
  slack     \* the cache and the pending requests of Slack.js, and the network

templateVars == <<tickets, config, data>>

jiraVars == <<changelog, jira>>

stepVars == <<call, slack>>

vars == <<impl, logs, pc, graph, log, ret, commits, filtered,
          templateVars, jiraVars, stepVars>>

----------------------------------------------------------------------------
(* Bounds of the model *)

\* most commits in one input list, and most parent links in it
MaxLogs == 3
MaxLinks == 4
\* most parents of one commit
MaxParents == 3
\* most commits, and most parent links, of a longer input list
MaxWideLogs == 4
MaxWideLinks == 5
\* most commits, and most parent links, of a list whose messages vary
MaxMsgLogs == 3
MaxMsgLinks == 3
\* most commits handed to filterRevertedCommits
MaxCommits == 4
\* most pieces of the summary and of the fullText handed to isRevert
MaxSummary == 3
MaxFullText == 5

----------------------------------------------------------------------------
(* JavaScript values *)

\* null, undefined and a thrown TypeError, as values no string is equal to
Null == <<"null">>
Undefined == <<"undefined">>
TypeError == <<"TypeError">>

\* the two revisions of class SourceControl held by the repository
ImplPlain == "SourceControl.js"
ImplRevert == "template.test.js:411"

Truthy(v) == v \notin {Null, Undefined, <<>>}

\* nothing of template.js has been called with tickets or a config
IdleTemplate == tickets = <<>> /\ config = Null /\ data = Null

\* no Jira instance has been constructed
IdleJira == changelog = <<>> /\ jira = Null

\* no simpleTopLevelGraph call runs step by step and Slack.js is not loaded
IdleSteps == call = Null /\ slack = Null

----------------------------------------------------------------------------
(* Strings *)

RV == "Revert \""
TR == "This reverts commit"
SP == " "
NL == "\n"
DOT == "."

\* characters of [0-9a-z]
HashChars == {"1", "2", "3", "4", "5", "6"}
WhiteSpace == {SP, NL}

DigitOf(i) == <<"1", "2", "3", "4", "5", "6">>[i]

RECURSIVE TrimStart(_)
TrimStart(s) ==
  IF s # <<>> /\ Head(s) \in WhiteSpace THEN TrimStart(Tail(s)) ELSE s

RECURSIVE TrimEnd(_)
TrimEnd(s) ==
  IF s # <<>> /\ s[Len(s)] \in WhiteSpace
    THEN TrimEnd(SubSeq(s, 1, Len(s) - 1))
    ELSE s

\* String.prototype.trim
Trim(s) == TrimEnd(TrimStart(s))

\* str.replace(/\n/g, ' ')
ReplaceNewlines(s) == [i \in 1..Len(s) |-> IF s[i] = NL THEN SP ELSE s[i]]

----------------------------------------------------------------------------
(* SourceControl.isRevert *)

\* oneLine.match(/^Revert ".*?This reverts commit ([0-9a-z]+)\.$/):
\* the positions at which "This reverts commit" can start so that the rest
\* of the line is a space, a hash and the final dot.
RevertMatches(oneLine) ==
  { i \in 2..Len(oneLine) :
      /\ oneLine[1] = RV
      /\ oneLine[i] = TR
      /\ i + 3 <= Len(oneLine)
      /\ oneLine[i + 1] = SP
      /\ \A j \in (i + 2)..(Len(oneLine) - 1) : oneLine[j] \in HashChars
      /\ oneLine[Len(oneLine)] = DOT }

\* the lazy .*? stops at the first position that lets the rest match
MatchStart(oneLine) ==
  CHOOSE i \in RevertMatches(oneLine) : \A j \in RevertMatches(oneLine) : i <= j

\* capture group 1 of the match
RevertSha(oneLine) == SubSeq(oneLine, MatchStart(oneLine) + 2, Len(oneLine) - 1)

\* log.summary.match(/^(Revert ")+/g): the number of markers in the longest
\* run of 'Revert "' at the start of the summary; 0 when match() gives null.
RECURSIVE LeadingReverts(_)
LeadingReverts(summary) ==
  IF summary # <<>> /\ Head(summary) = RV
    THEN 1 + LeadingReverts(Tail(summary))
    ELSE 0

\* The reverted sha, Null, or TypeError when revertSummary is null and
\* revertSummary[0] is read.
isRevert(l) ==
  LET oneLine == Trim(ReplaceNewlines(l.fullText))
  IN IF RevertMatches(oneLine) # {}
       THEN IF LeadingReverts(l.summary) = 0
              THEN TypeError
              ELSE IF LeadingReverts(l.summary) % 2 # 0
                     THEN RevertSha(oneLine)
                     ELSE Null
       ELSE Null

----------------------------------------------------------------------------
(* SourceControl.simpleTopLevelGraph *)

\* log.parents.split(' '): the parents string is the sequence of its hashes;
\* the empty string splits into one empty string.
Split(parents) ==
  IF parents = <<>> THEN << <<>> >> ELSE [i \in 1..Len(parents) |-> <<parents[i]>>]

\* Array.prototype.toString of an array of hashes: its elements joined by ','
RECURSIVE ArrayToKey(_)
ArrayToKey(arr) == IF arr = <<>> THEN <<>> ELSE Head(arr) \o ArrayToKey(Tail(arr))

\* hashes[key]: the index holds the revisions not yet claimed; a key finds a
\* log only if it is the text of exactly that revision.
Has(hashes, key) == Len(key) = 1 /\ key[1] \in hashes

\* the log object stored under a revision (hashes[log.revision] = log)
ObjOf(logObjs, key) ==
  logObjs[CHOOSE i \in 1..Len(logObjs) :
            /\ logObjs[i].revision = key[1]
            /\ \A j \in (i + 1)..Len(logObjs) : logObjs[j].revision # key[1]]

\* the body of logs.map(...): one log object of the first loop
LogObj(version, l) ==
  LET parents == Split(l.parents)
      base == [revision |-> l.revision, parents |-> l.parents,
               summary |-> l.summary, fullText |-> l.fullText,
               graph |-> [prev |-> parents[1], parents |-> Tail(parents),
                          merged |-> <<>>]]
  IN IF version = ImplRevert
       THEN base @@ [reverted |-> isRevert(l)]
       ELSE base @@ [reverted |-> Undefined]

\* a walk that takes the commits in the order of the log, up to the first
\* commit whose first parent is unknown, instead of following graph.prev
RECURSIVE MainlineWalkLogOrder(_, _, _, _)
MainlineWalkLogOrder(logObjs, cur, hashes, top) ==
  LET h == hashes \ {cur.revision}
      g == Append(top, cur)
  IN IF Has(h, cur.graph.prev) /\ Len(g) < Len(logObjs)
       THEN MainlineWalkLogOrder(logObjs, logObjs[Len(g) + 1], h, g)
       ELSE [graph |-> g, hashes |-> h]

\* a walk that hands the index on as it found it: the commits it has taken
\* stay claimable
RECURSIVE MainlineWalkKeepIndex(_, _, _, _)
MainlineWalkKeepIndex(logObjs, cur, hashes, top) ==
  LET g == Append(top, cur)
      h == hashes \ {g[i].revision : i \in 1..Len(g)}
  IN IF Has(h, cur.graph.prev)
       THEN MainlineWalkKeepIndex(logObjs, ObjOf(logObjs, cur.graph.prev), hashes, g)
       ELSE [graph |-> g, hashes |-> hashes]

\* let log = logObjs[0]; while (log) { ... }
RECURSIVE MainlineWalk(_, _, _, _)
MainlineWalk(logObjs, cur, hashes, top) ==
  LET h == hashes \ {cur.revision}
      g == Append(top, cur)
  IN IF Has(h, cur.graph.prev)
       THEN MainlineWalk(logObjs, ObjOf(logObjs, cur.graph.prev), h, g)
       ELSE [graph |-> g, hashes |-> h]

\* related = [logItem.graph.prev, logItem.graph.parents]: the second entry is
\* the array itself, which hashes[hash] coerces to a string
Related(logItem) == << logItem.graph.prev, ArrayToKey(logItem.graph.parents) >>

\* function relatedLogs(logItem), with the index it shares with its caller
RECURSIVE relatedLogs(_, _, _)
relatedLogs(logObjs, logItem, hashes) ==
  LET Visit(acc, hash) ==
        IF Has(acc.hashes, hash)
          THEN LET relatedObj == ObjOf(logObjs, hash)
                   sub == relatedLogs(logObjs, relatedObj,
                                      acc.hashes \ {relatedObj.revision})
               IN [out |-> (acc.out \o <<relatedObj>>) \o sub.out,
                   hashes |-> sub.hashes]
          ELSE acc
      related == Related(logItem)
  IN Visit(Visit([out |-> <<>>, hashes |-> hashes], related[1]), related[2])

\* a forEach in which every top-level commit searches its own copy of the
\* index, so that what one claims stays claimable by the next
RECURSIVE AttachMergedFreshIndex(_, _, _, _)
AttachMergedFreshIndex(logObjs, top, i, hashes) ==
  IF i > Len(top)
    THEN top
    ELSE AttachMergedFreshIndex(
           logObjs,
           [top EXCEPT ![i].graph.merged = relatedLogs(logObjs, top[i], hashes).out],
           i + 1, hashes)

\* graph.forEach((topLevelLog) => { topLevelLog.graph.merged = relatedLogs(...) })
RECURSIVE AttachMerged(_, _, _, _)
AttachMerged(logObjs, top, i, hashes) ==
  IF i > Len(top)
    THEN top
    ELSE LET r == relatedLogs(logObjs, top[i], hashes)
         IN AttachMerged(logObjs,
                         [top EXCEPT ![i].graph.merged = r.out],
                         i + 1, r.hashes)

\* isRevert throws inside logs.map(...), and simpleTopLevelGraph with it
Throws(version, ls) ==
  \E i \in 1..Len(ls) : LogObj(version, ls[i]).reverted = TypeError

\* The list simpleTopLevelGraph returns when it returns.
simpleTopLevelGraph(version, ls) ==
  LET logObjs == [i \in 1..Len(ls) |-> LogObj(version, ls[i])]
      hashes == {logObjs[i].revision : i \in 1..Len(ls)}
  IN IF ls = <<>>
       THEN <<>>
       ELSE LET walk == MainlineWalk(logObjs, logObjs[1], hashes, <<>>)
            IN AttachMerged(logObjs, walk.graph, 1, walk.hashes)

----------------------------------------------------------------------------
(* SourceControl.consolodateCommitMessages *)

\* an inner forEach that appends nothing
AppendNothing(text, merged, field) == text

\* the inner forEach of SourceControl.js: every merged text is appended
RECURSIVE AppendMerged(_, _, _)
AppendMerged(text, merged, field) ==
  IF merged = <<>>
    THEN text
    ELSE AppendMerged((text \o <<NL>>) \o Trim(Head(merged)[field]),
                      Tail(merged), field)

\* the inner forEach of the later revision: reverted commits are skipped
RECURSIVE AppendUnreverted(_, _, _)
AppendUnreverted(text, merged, field) ==
  IF merged = <<>>
    THEN text
    ELSE IF Truthy(Head(merged).reverted)
           THEN AppendUnreverted(text, Tail(merged), field)
           ELSE AppendUnreverted((text \o <<NL>>) \o Trim(Head(merged)[field]),
                                 Tail(merged), field)

\* SourceControl.js: summary and fullText are both rebuilt
ConsolodateItem(item) ==
  [item EXCEPT
     !.summary = Trim(AppendMerged(item.summary, item.graph.merged, "summary")),
     !.fullText = Trim(AppendMerged(item.fullText, item.graph.merged, "fullText"))]

\* the later revision: only fullText is rebuilt
ConsolodateItemFullText(item) ==
  [item EXCEPT
     !.fullText = Trim(AppendUnreverted(item.fullText, item.graph.merged, "fullText"))]

consolodateCommitMessages(version, g) ==
  [i \in 1..Len(g) |->
     IF version = ImplRevert
       THEN ConsolodateItemFullText(g[i])
       ELSE ConsolodateItem(g[i])]

----------------------------------------------------------------------------
(* Inputs *)

Impls == {ImplPlain, ImplRevert}

\* the parents strings git can print for a commit (%P): up to MaxParents
\* different hashes, each the revision of a commit the range may hold or 0
ParentLists ==
  UNION { { p \in [1..k -> 0..MaxWideLogs] : \A a, b \in 1..k : a # b => p[a] # p[b] }
          : k \in 0..MaxParents }

\* the message of a commit that is no revert
PlainSummary(i) == <<"X", DigitOf(i)>>
PlainFullText(i) == <<"X", DigitOf(i), NL, "X">>

RECURSIVE Links(_)
Links(ls) == IF ls = <<>> THEN 0 ELSE Len(Head(ls).parents) + Links(Tail(ls))

NoLog == [summary |-> <<>>, fullText |-> <<>>]

----------------------------------------------------------------------------
(* The caller: getCommitLogs reads the commits of the range (workspace.log *)
(* fills response.all), calls simpleTopLevelGraph on them and              *)
(* consolodateCommitMessages on its result.                                *)

InitGraph ==
  /\ impl \in Impls
  /\ IdleSteps
  /\ logs = <<>>
  /\ pc = "log"
  /\ graph = <<>>
  /\ log = NoLog
  /\ ret = Null
  /\ commits = <<>>
  /\ filtered = <<>>
  /\ IdleTemplate
  /\ IdleJira

\* one more commit of a range of at most maxLogs commits and maxLinks
\* parent links; revisions are distinct (the i-th is i) and a parent is a
\* commit the range may hold or 0
ReadLogOf(maxLogs, maxLinks) ==
  /\ pc = "log"
  /\ Len(logs) < maxLogs
  /\ \E p \in ParentLists :
       /\ \A k \in 1..Len(p) : p[k] <= maxLogs
       /\ Links(logs) + Len(p) <= maxLinks
       /\ logs' = Append(logs, [revision |-> Len(logs) + 1, parents |-> p,
                                summary |-> PlainSummary(Len(logs) + 1),
                                fullText |-> PlainFullText(Len(logs) + 1)])
  /\ UNCHANGED <<stepVars, impl, pc, graph, log, ret, commits, filtered, templateVars, jiraVars>>

ReadLog == ReadLogOf(MaxLogs, MaxLinks)

ReadLogWide == ReadLogOf(MaxWideLogs, MaxWideLinks)

SimpleTopLevelGraph ==
  /\ pc = "log"
  /\ IF Throws(impl, logs)
       THEN pc' = "threw" /\ graph' = graph
       ELSE pc' = "graphed" /\ graph' = simpleTopLevelGraph(impl, logs)
  /\ UNCHANGED <<stepVars, impl, logs, log, ret, commits, filtered, templateVars, jiraVars>>

ConsolodateCommitMessages ==
  /\ pc = "graphed"
  /\ graph' = consolodateCommitMessages(impl, graph)
  /\ pc' = "consolidated"
  /\ UNCHANGED <<stepVars, impl, logs, log, ret, commits, filtered, templateVars, jiraVars>>

\* simpleTopLevelGraph called on the list it returned
SimpleTopLevelGraphAgain ==
  /\ pc = "graphed"
  /\ IF Throws(impl, graph)
       THEN pc' = "threw" /\ graph' = graph
       ELSE pc' = "graphed twice" /\ graph' = simpleTopLevelGraph(impl, graph)
  /\ UNCHANGED <<stepVars, impl, logs, log, ret, commits, filtered, templateVars, jiraVars>>

NextGraph ==
  \/ ReadLog
  \/ SimpleTopLevelGraph
  \/ ConsolodateCommitMessages
  \/ SimpleTopLevelGraphAgain

SpecGraph == InitGraph /\ [][NextGraph]_vars

NextWide == ReadLogWide \/ SimpleTopLevelGraph \/ ConsolodateCommitMessages

SpecWide == InitGraph /\ [][NextWide]_vars

----------------------------------------------------------------------------
(* The same caller on commits whose messages vary: plain messages, messages *)
(* with white space around them, reverts, reverts of reverts, and messages  *)
(* whose fullText is a revert while the summary is not.                     *)

MessageKinds == {"plain", "padded", "blank", "revert", "unrevert", "body-only"}

RevertBody == <<NL, TR, SP, "6", DOT>>

Message(kind, i) ==
  CASE kind = "plain" ->
         [summary |-> PlainSummary(i), fullText |-> PlainFullText(i)]
    [] kind = "padded" ->
         [summary |-> <<SP, "X", DigitOf(i), SP>>,
          fullText |-> <<NL, "X", DigitOf(i), SP, "X", NL>>]
    [] kind = "blank" ->
         [summary |-> <<SP>>, fullText |-> <<NL, SP>>]
    [] kind = "revert" ->
         [summary |-> <<RV, "X", DigitOf(i)>>,
          fullText |-> <<RV, "X", DigitOf(i)>> \o RevertBody]
    [] kind = "unrevert" ->
         [summary |-> <<RV, RV, "X", DigitOf(i)>>,
          fullText |-> <<RV, RV, "X", DigitOf(i)>> \o RevertBody]
    [] kind = "body-only" ->
         [summary |-> <<"X", DigitOf(i)>>,
          fullText |-> <<SP, RV, "X", DigitOf(i)>> \o RevertBody]

ReadLogMsg ==
  /\ pc = "log"
  /\ Len(logs) < MaxMsgLogs
  /\ \E p \in ParentLists, kind \in MessageKinds :
       /\ Len(p) <= 2
       /\ \A k \in 1..Len(p) : p[k] <= MaxMsgLogs
       /\ Links(logs) + Len(p) <= MaxMsgLinks
       /\ logs' = Append(logs, [revision |-> Len(logs) + 1, parents |-> p,
                                summary |-> Message(kind, Len(logs) + 1).summary,
                                fullText |-> Message(kind, Len(logs) + 1).fullText])
  /\ UNCHANGED <<stepVars, impl, pc, graph, log, ret, commits, filtered, templateVars, jiraVars>>

NextMsg == ReadLogMsg \/ SimpleTopLevelGraph \/ ConsolodateCommitMessages

SpecMsg == InitGraph /\ [][NextMsg]_vars

----------------------------------------------------------------------------
(* A caller of isRevert, on any summary and fullText *)

SummaryPieces == {RV, "1"}
FullTextPieces == {RV, TR, SP, NL, DOT, "1"}

Texts(pieces, max) == UNION { [1..k -> pieces] : k \in 0..max }

InitRevert ==
  /\ impl = ImplRevert
  /\ IdleSteps
  /\ logs = <<>>
  /\ pc = "call"
  /\ graph = <<>>
  /\ log \in [summary : Texts(SummaryPieces, MaxSummary),
              fullText : Texts(FullTextPieces, MaxFullText)]
  /\ ret = Null
  /\ commits = <<>>
  /\ filtered = <<>>
  /\ IdleTemplate
  /\ IdleJira

IsRevert ==
  /\ pc = "call"
  /\ IF isRevert(log) = TypeError
       THEN pc' = "threw" /\ ret' = ret
       ELSE pc' = "returned" /\ ret' = isRevert(log)
  /\ UNCHANGED <<stepVars, impl, logs, graph, log, commits, filtered, templateVars, jiraVars>>

NextRevert == IsRevert

SpecRevert == InitRevert /\ [][NextRevert]_vars

----------------------------------------------------------------------------
(* template.filterRevertedCommits.  The commits are objects: a position of *)
(* the input list is the identity of the object there, and the Set of the  *)
(* reduce is the sequence of the positions added, each once.               *)

\* commitHash[revision]: the last commit of the list with that revision
CommitHash(cs, revision) ==
  IF \E i \in 1..Len(cs) : cs[i].revision = revision
    THEN CHOOSE i \in 1..Len(cs) :
           /\ cs[i].revision = revision
           /\ \A j \in (i + 1)..Len(cs) : cs[j].revision # revision
    ELSE 0

\* an add that does not look for the object among those already added
SetAddAgain(acc, obj) == Append(acc, obj)

\* Set.prototype.add
SetAdd(acc, obj) ==
  IF \E k \in 1..Len(acc) : acc[k] = obj THEN acc ELSE Append(acc, obj)

\* a step that keeps the reverting commit beside the commit it reverts
ReduceStepKeepBoth(cs, acc, i) ==
  IF Truthy(cs[i].reverted)
    THEN LET revertedCommit == CommitHash(cs, cs[i].reverted)
         IN IF revertedCommit # 0
              THEN [cs |-> [cs EXCEPT ![revertedCommit].revertedBy = cs[i].revision],
                    acc |-> SetAdd(SetAdd(acc, revertedCommit), i)]
              ELSE [cs |-> cs, acc |-> SetAdd(acc, i)]
    ELSE [cs |-> cs, acc |-> SetAdd(acc, i)]

\* a step that drops every reverting commit, also one whose original is
\* not in the list
ReduceStepDropAll(cs, acc, i) ==
  IF Truthy(cs[i].reverted)
    THEN LET revertedCommit == CommitHash(cs, cs[i].reverted)
         IN IF revertedCommit # 0
              THEN [cs |-> [cs EXCEPT ![revertedCommit].revertedBy = cs[i].revision],
                    acc |-> SetAdd(acc, revertedCommit)]
              ELSE [cs |-> cs, acc |-> acc]
    ELSE [cs |-> cs, acc |-> SetAdd(acc, i)]

\* the callback of logs.reduce(...) on the commit at position i
ReduceStep(cs, acc, i) ==
  IF Truthy(cs[i].reverted)
    THEN LET revertedCommit == CommitHash(cs, cs[i].reverted)
         IN IF revertedCommit # 0
              THEN [cs |-> [cs EXCEPT ![revertedCommit].revertedBy = cs[i].revision],
                    acc |-> SetAdd(acc, revertedCommit)]
              ELSE [cs |-> cs, acc |-> SetAdd(acc, i)]
    ELSE [cs |-> cs, acc |-> SetAdd(acc, i)]

\* logs.reduce(..., new Set()) from position i on
RECURSIVE Reduce(_, _, _)
Reduce(cs, acc, i) ==
  IF i > Len(cs)
    THEN [cs |-> cs, acc |-> acc]
    ELSE LET r == ReduceStep(cs, acc, i) IN Reduce(r.cs, r.acc, i + 1)

\* the commits after the call, and the positions of those returned, in the
\* order of Array.from(reduced)
filterRevertedCommits(cs) == Reduce(cs, <<>>, 1)

\* a commit hash of one character
Hash(i) == <<DigitOf(i)>>

InitFilter ==
  /\ impl = ImplRevert
  /\ IdleSteps
  /\ logs = <<>>
  /\ pc = "logs"
  /\ graph = <<>>
  /\ log = NoLog
  /\ ret = Null
  /\ commits = <<>>
  /\ filtered = <<>>
  /\ IdleTemplate
  /\ IdleJira

\* following the reverted fields from revision `from` leads to revision `to`
RECURSIVE RevertsLeadTo(_, _, _, _)
RevertsLeadTo(cs, from, to, fuel) ==
  \/ from = to
  \/ /\ fuel > 0
     /\ CommitHash(cs, from) # 0
     /\ RevertsLeadTo(cs, cs[CommitHash(cs, from)].reverted, to, fuel - 1)

\* one more commit of the list handed to filterRevertedCommits: a commit
\* that is no revert, or one that reverts another commit, of the list or not.
\* A message names a commit made before it, so the reverted fields never
\* lead from a commit back to itself.
AddCommit ==
  /\ pc = "logs"
  /\ Len(commits) < MaxCommits
  /\ \E reverted \in {Null} \cup {Hash(k) : k \in 1..(MaxCommits + 1)} :
       /\ ~RevertsLeadTo(commits, reverted, Hash(Len(commits) + 1), Len(commits))
       /\ commits' = Append(commits, [revision |-> Hash(Len(commits) + 1),
                                      reverted |-> reverted,
                                      revertedBy |-> Undefined])
  /\ UNCHANGED <<stepVars, impl, logs, pc, graph, log, ret, filtered, templateVars, jiraVars>>

FilterRevertedCommits ==
  /\ pc = "logs"
  /\ LET r == filterRevertedCommits(commits)
     IN /\ commits' = r.cs
        /\ filtered' = [k \in 1..Len(r.acc) |-> r.cs[r.acc[k]]]
  /\ pc' = "filtered"
  /\ UNCHANGED <<stepVars, impl, logs, graph, log, ret, templateVars, jiraVars>>

NextFilter == AddCommit \/ FilterRevertedCommits

SpecFilter == InitFilter /\ [][NextFilter]_vars

----------------------------------------------------------------------------
(* What the claims about simpleTopLevelGraph speak of, read off the input  *)
(* and the output.                                                         *)

Returned == pc \in {"graphed", "consolidated"}

Range(f) == {f[i] : i \in DOMAIN f}

InputRevs == {logs[i].revision : i \in 1..Len(logs)}

InputLog(r) == logs[CHOOSE i \in 1..Len(logs) : logs[i].revision = r]

ParentsOf(r) == InputLog(r).parents

TopRevs == [i \in 1..Len(graph) |-> graph[i].revision]

MergedRevs(i) ==
  [j \in 1..Len(graph[i].graph.merged) |-> graph[i].graph.merged[j].revision]

RECURSIVE ConcatMerged(_)
ConcatMerged(i) ==
  IF i > Len(graph) THEN <<>> ELSE MergedRevs(i) \o ConcatMerged(i + 1)

\* every revision of the output: the top level, then every merged list
OutputRevs == TopRevs \o ConcatMerged(1)

NonMainline == InputRevs \ Range(TopRevs)

\* the first-parent chain from r, cut after `fuel` links
RECURSIVE FirstParentChain(_, _)
FirstParentChain(r, fuel) ==
  IF fuel > 0 /\ ParentsOf(r) # <<>> /\ ParentsOf(r)[1] \in InputRevs
    THEN <<r>> \o FirstParentChain(ParentsOf(r)[1], fuel - 1)
    ELSE <<r>>

\* the first-parent chain from the first record ends (no commit of it is its
\* own first-parent ancestor)
ChainEnds ==
  logs # <<>> /\ Len(FirstParentChain(logs[1].revision, Len(logs))) <= Len(logs)

\* the commits of `within` reachable from the set S by parent links
RECURSIVE Closure(_, _)
Closure(S, within) ==
  LET T == S \cup { h \in within : \E r \in S : h \in Range(ParentsOf(r)) }
  IN IF T = S THEN S ELSE Closure(T, within)

\* the non-mainline commits a top-level commit reaches over non-mainline commits
ReachedFrom(t) ==
  Closure(Range(ParentsOf(t)) \cap NonMainline, NonMainline)

\* depth-first discovery from commit r: every parent of r in the order
\* listed, each followed by what is discovered from it
RECURSIVE Discover(_, _, _)
Discover(ps, claimed, out) ==
  IF ps = <<>>
    THEN [out |-> out, claimed |-> claimed]
    ELSE IF Head(ps) \in InputRevs \ claimed
           THEN LET sub == Discover(ParentsOf(Head(ps)),
                                    claimed \cup {Head(ps)},
                                    Append(out, Head(ps)))
                IN Discover(Tail(ps), sub.claimed, sub.out)
           ELSE Discover(Tail(ps), claimed, out)

\* the merged lists depth-first discovery gives the top-level commits i..
RECURSIVE DiscoveredFrom(_, _)
DiscoveredFrom(i, claimed) ==
  IF i > Len(graph)
    THEN <<>>
    ELSE LET d == Discover(ParentsOf(graph[i].revision), claimed, <<>>)
         IN <<d.out>> \o DiscoveredFrom(i + 1, d.claimed)

----------------------------------------------------------------------------
(* Claims *)

\* C1: for a range whose first-parent chain ends, the top level returned by
\* simpleTopLevelGraph is exactly the first-parent chain from the first
\* record, in that order, up to the first commit whose first parent is not a
\* commit of the input; an empty input gives an empty list.
C1_TopLevelIsFirstParentChain ==
  Returned =>
    IF logs = <<>>
      THEN graph = <<>>
      ELSE ChainEnds => TopRevs = FirstParentChain(logs[1].revision, Len(logs))

\* a mainline of two commits that ends at a parent outside the input, with
\* a commit merged through a non-first parent
C1_Witness ==
  /\ Returned
  /\ ChainEnds
  /\ Len(graph) >= 2
  /\ ParentsOf(graph[Len(graph)].revision) # <<>>
  /\ \E i \in 1..Len(graph) : graph[i].graph.merged # <<>>

\* C2: with pairwise distinct input revisions, no revision occurs twice in
\* the output, top level and merged lists taken together.
C2_NoDoubleAttribution ==
  Returned =>
    \A a, b \in 1..Len(OutputRevs) : a # b => OutputRevs[a] # OutputRevs[b]

\* a merged commit that two top-level commits reach
C2_Witness ==
  /\ Returned
  /\ \E i, j \in 1..Len(graph) :
       /\ i # j
       /\ ReachedFrom(graph[i].revision) \cap ReachedFrom(graph[j].revision) # {}
       /\ graph[i].graph.merged # <<>>

\* C3: every input commit reachable from the first record by parent links
\* (first or other, any number of parents) is in the output.
C3_ReachableIsInOutput ==
  (Returned /\ logs # <<>>) =>
    Closure({logs[1].revision}, InputRevs) \subseteq Range(OutputRevs)

\* C4: a non-mainline commit reached from more than one top-level commit is
\* in the merged list of the first of them in top-level order, and only there.
C4_FirstReacherClaims ==
  Returned =>
    \A x \in NonMainline :
      LET R == {i \in 1..Len(graph) : x \in ReachedFrom(graph[i].revision)}
      IN Cardinality(R) > 1 =>
           \A i \in 1..Len(graph) :
             (x \in Range(MergedRevs(i))) <=> (\A k \in R : i <= k) /\ i \in R

\* C5: every merged list is the depth-first discovery order of the parents.
C5_MergedIsDepthFirst ==
  Returned =>
    \A i \in 1..Len(graph) :
      MergedRevs(i) = DiscoveredFrom(1, Range(TopRevs))[i]

----------------------------------------------------------------------------
(* What the claims about the messages speak of *)

\* the lines joined by newlines
RECURSIVE JoinLines(_)
JoinLines(lines) ==
  IF lines = <<>>
    THEN <<>>
    ELSE IF Len(lines) = 1
           THEN Head(lines)
           ELSE (Head(lines) \o <<NL>>) \o JoinLines(Tail(lines))

\* the trimmed texts of the merged commits j.. of top-level commit i, as
\* read from the input, with or without those whose reverted field is set
RECURSIVE MergedTexts(_, _, _, _)
MergedTexts(i, j, field, reverts) ==
  IF j > Len(graph[i].graph.merged)
    THEN <<>>
    ELSE LET m == graph[i].graph.merged[j]
         IN (IF reverts \/ ~Truthy(m.reverted)
               THEN <<Trim(InputLog(m.revision)[field])>>
               ELSE <<>>)
            \o MergedTexts(i, j + 1, field, reverts)

\* the own text of top-level commit i followed by the merged texts
Consolidated(i, field, reverts) ==
  Trim(JoinLines(<<InputLog(graph[i].revision)[field]>>
                 \o MergedTexts(i, 1, field, reverts)))

\* the pattern of isRevert matches the one-line fullText
IsRevertText(fullText) == RevertMatches(Trim(ReplaceNewlines(fullText))) # {}

\* C6: isRevert returns the reverted hash exactly when fullText matches the
\* pattern and the summary starts with an odd number of 'Revert "', and
\* null in every other case (an even number, or no match).
C6_IsRevertResult ==
  pc \in {"returned", "threw"} =>
    /\ pc = "returned"
    /\ IF IsRevertText(log.fullText) /\ LeadingReverts(log.summary) % 2 = 1
         THEN ret = RevertSha(Trim(ReplaceNewlines(log.fullText)))
         ELSE ret = Null

\* C7: after consolodateCommitMessages the summary and the fullText of
\* every top-level commit are its own text followed by the trimmed text of
\* every merged commit, in order, joined by newlines and trimmed.
C7_BothTextsConsolidated ==
  pc = "consolidated" =>
    \A i \in 1..Len(graph) :
      /\ graph[i].summary = Consolidated(i, "summary", TRUE)
      /\ graph[i].fullText = Consolidated(i, "fullText", TRUE)

\* C8: after both calls the summary and the fullText of every top-level
\* commit hold the texts of its merged commits that are no reverts, and
\* not the text of a merged commit whose reverted field is set.
C8_RevertsLeftOut ==
  pc = "consolidated" =>
    \A i \in 1..Len(graph) :
      /\ graph[i].summary = Consolidated(i, "summary", FALSE)
      /\ graph[i].fullText = Consolidated(i, "fullText", FALSE)

----------------------------------------------------------------------------
(* What the claims about filterRevertedCommits speak of.  The call leaves  *)
(* revision and reverted of every commit as they were.                     *)

CommitRevs == {commits[i].revision : i \in 1..Len(commits)}

FilteredRevs == {filtered[k].revision : k \in 1..Len(filtered)}

\* commit i reverts a commit of the list
Resolved(i) == Truthy(commits[i].reverted) /\ commits[i].reverted \in CommitRevs

\* commit i reverts a commit that is not in the list
Unresolved(i) == Truthy(commits[i].reverted) /\ commits[i].reverted \notin CommitRevs

\* the positions of the commits that revert the commit at position x
Reverters(x) ==
  {i \in 1..Len(commits) : commits[i].reverted = commits[x].revision}

C10_UnresolvedRevertKept ==
  pc = "filtered" =>
    /\ \A i \in 1..Len(commits) :
         ~Resolved(i) => \E k \in 1..Len(filtered) : filtered[k] = commits[i]
    /\ \A i \in 1..Len(commits) :
         /\ Reverters(i) = {} => commits[i].revertedBy = Undefined
         /\ Unresolved(i) =>
              \A x \in 1..Len(commits) : commits[x].revertedBy # commits[i].revision

\* a returned commit reverts a commit outside the list, beside a commit
\* that was reverted by a commit of the list
C10_Witness ==
  /\ pc = "filtered"
  /\ \E i \in 1..Len(commits) :
       /\ Unresolved(i)
       /\ \E k \in 1..Len(filtered) : filtered[k] = commits[i]
  /\ \E r \in 1..Len(commits) : Resolved(r)

\* the revisions that survive: of the commits that revert no commit of the
\* list, and of the commits that a commit of the list reverts
Surviving ==
  {commits[i].revision : i \in {j \in 1..Len(commits) : ~Resolved(j) \/ Reverters(j) # {}}}

\* C11: with pairwise distinct revisions, the list returned by
\* filterRevertedCommits holds every surviving revision, no other revision,
\* and no revision twice.
C11_SurvivorsOnce ==
  pc = "filtered" =>
    /\ FilteredRevs = Surviving
    /\ \A a, b \in 1..Len(filtered) :
         a # b => filtered[a].revision # filtered[b].revision

\* two commits revert the same commit; one reverted commit comes before
\* its reverting commit and another one after
C11_Witness ==
  /\ pc = "filtered"
  /\ \E x \in 1..Len(commits) : Cardinality(Reverters(x)) > 1
  /\ \E x \in 1..Len(commits) : \E r \in Reverters(x) : x < r
  /\ \E x \in 1..Len(commits) : \E r \in Reverters(x) : r < x

----------------------------------------------------------------------------
(* template.decorateTicketReverts.  A date is the text git writes for     *)
(* '%ai', cut down to three characters: the hour of the local time, the   *)
(* sign of the time zone and the hours of the time zone.                  *)

\* most tickets handed to decorateTicketReverts, and most commits of them
MaxTickets == 2
MaxTicketCommits == 3

\* the code unit of a character of a date, a name or an issue type
CharCode(c) ==
  CASE c = "+" -> 43
    [] c = "-" -> 45
    [] c = "1" -> 49
    [] c = "2" -> 50
    [] c = "3" -> 51
    [] c = "4" -> 52
    [] c = "5" -> 53
    [] c = "6" -> 54
    [] c = "B" -> 66
    [] c = "S" -> 83

\* a < b for two strings, as JavaScript compares them
RECURSIVE StringLess(_, _)
StringLess(a, b) ==
  IF b = <<>>
    THEN FALSE
    ELSE IF a = <<>>
           THEN TRUE
           ELSE IF Head(a) = Head(b)
                  THEN StringLess(Tail(a), Tail(b))
                  ELSE CharCode(Head(a)) < CharCode(Head(b))

\* the list with the pair p put behind every pair whose key is not greater
RECURSIVE InsertByKey(_, _)
InsertByKey(sorted, p) ==
  IF sorted = <<>>
    THEN <<p>>
    ELSE IF StringLess(p.key, Head(sorted).key)
           THEN <<p>> \o sorted
           ELSE <<Head(sorted)>> \o InsertByKey(Tail(sorted), p)

\* _.sortBy on pairs of a key and an item: ascending by key and stable
RECURSIVE SortByKey(_)
SortByKey(ps) ==
  IF ps = <<>>
    THEN <<>>
    ELSE InsertByKey(SortByKey(SubSeq(ps, 1, Len(ps) - 1)), ps[Len(ps)])

\* the items of sorted pairs
Items(ps) == [i \in 1..Len(ps) |-> ps[i].item]

\* _.sortBy(commits, commit => commit.date)
SortByDate(cs) ==
  Items(SortByKey([i \in 1..Len(cs) |-> [key |-> cs[i].date, item |-> cs[i]]]))

\* Array.prototype.reverse
Reverse(s) == [i \in 1..Len(s) |-> s[Len(s) + 1 - i]]

\* a || b
Or(a, b) == IF Truthy(a) THEN a ELSE b

\* obj[field] = v
Put(obj, field, v) ==
  [x \in DOMAIN obj \cup {field} |-> IF x = field THEN v ELSE obj[x]]

\* !ticket.commits || !ticket.commits.length
NoCommits(ticket) == "commits" \notin DOMAIN ticket \/ ticket.commits = <<>>

\* the callback of tickets.forEach(...)
DecorateTicket(ticket) ==
  IF NoCommits(ticket)
    THEN Put(ticket, "reverted", Null)
    ELSE LET sorted == Reverse(SortByDate(ticket.commits))
             lastCommit == sorted[1]
         IN Put(ticket, "reverted", Or(lastCommit.reverted, lastCommit.revertedBy))

decorateTicketReverts(ts) == [i \in 1..Len(ts) |-> DecorateTicket(ts[i])]

\* the dates of commits: local hour, then the time zone of the author
Dates == {<<h, "+", "2">> : h \in {"1", "2", "3"}}
           \cup {<<h, "-", "1">> : h \in {"1", "2", "3"}}

InitDecorate ==
  /\ impl = ImplRevert
  /\ IdleSteps
  /\ logs = <<>>
  /\ pc = "tickets"
  /\ graph = <<>>
  /\ log = NoLog
  /\ ret = Null
  /\ commits = <<>>
  /\ filtered = <<>>
  /\ IdleTemplate
  /\ IdleJira

RECURSIVE TicketCommits(_)
TicketCommits(ts) ==
  IF ts = <<>>
    THEN 0
    ELSE (IF "commits" \in DOMAIN ts[Len(ts)] THEN Len(ts[Len(ts)].commits) ELSE 0)
         + TicketCommits(SubSeq(ts, 1, Len(ts) - 1))

\* one more ticket, with a list of commits or without the property
NewTicket ==
  /\ pc = "tickets"
  /\ Len(tickets) < MaxTickets
  /\ \/ tickets' = Append(tickets, [key |-> Hash(Len(tickets) + 1)])
     \/ tickets' = Append(tickets, [key |-> Hash(Len(tickets) + 1), commits |-> <<>>])
  /\ UNCHANGED <<stepVars, impl, logs, pc, graph, log, ret, commits, filtered, config, data, jiraVars>>

\* one more commit of the last ticket: a commit that reverts nothing, a
\* revert, or a commit that a revert left out of the list reverted
NewTicketCommit ==
  /\ pc = "tickets"
  /\ tickets # <<>>
  /\ "commits" \in DOMAIN tickets[Len(tickets)]
  /\ TicketCommits(tickets) < MaxTicketCommits
  /\ \E date \in Dates, reverted \in {Null, Hash(5)}, revertedBy \in {Undefined, Hash(6)} :
       tickets' = [tickets EXCEPT ![Len(tickets)].commits =
                     Append(@, [date |-> date, reverted |-> reverted,
                                revertedBy |-> revertedBy])]
  /\ UNCHANGED <<stepVars, impl, logs, pc, graph, log, ret, commits, filtered, config, data, jiraVars>>

DecorateTicketReverts ==
  /\ pc = "tickets"
  /\ tickets' = decorateTicketReverts(tickets)
  /\ pc' = "decorated"
  /\ UNCHANGED <<stepVars, impl, logs, graph, log, ret, commits, filtered, config, data, jiraVars>>

NextDecorate == NewTicket \/ NewTicketCommit \/ DecorateTicketReverts

SpecDecorate == InitDecorate /\ [][NextDecorate]_vars

----------------------------------------------------------------------------
(* What the claim about decorateTicketReverts speaks of *)

\* the time zone of a date, in hours east of Greenwich
ZoneHours(date) ==
  LET h == CHOOSE n \in 1..3 : DigitOf(n) = date[3]
  IN IF date[2] = "+" THEN h ELSE 0 - h

\* the instant a date names, in hours
Instant(date) == (CHOOSE n \in 1..3 : DigitOf(n) = date[1]) - ZoneHours(date)

\* the positions of the commits of a ticket no other commit of it is later than
Latest(ticket) ==
  {i \in 1..Len(ticket.commits) :
     \A j \in 1..Len(ticket.commits) :
       Instant(ticket.commits[j].date) <= Instant(ticket.commits[i].date)}

\* C12: after decorateTicketReverts a ticket without commits has reverted =
\* null, and a ticket with a single latest commit has the reverted value of
\* that commit or else its revertedBy value, whatever the order of the list.
C12_LatestCommitDecides ==
  pc = "decorated" =>
    \A t \in 1..Len(tickets) :
      IF NoCommits(tickets[t])
        THEN tickets[t].reverted = Null
        ELSE \A i \in Latest(tickets[t]) :
               Latest(tickets[t]) = {i} =>
                 LET c == tickets[t].commits[i]
                 IN tickets[t].reverted = Or(c.reverted, c.revertedBy)

----------------------------------------------------------------------------
(* template.groupTicketsByStatus *)

\* most tickets handed to groupTicketsByStatus, and most configured statuses
MaxStatusTickets == 3
MaxStatuses == 2

\* String.prototype.toLowerCase, on the letters of the status names
LowerChar(c) ==
  CASE c = "D" -> "d"
    [] c = "O" -> "o"
    [] c = "T" -> "t"
    [] OTHER -> c

toLowerCase(s) == [i \in 1..Len(s) |-> LowerChar(s[i])]

\* the status names of tickets and of the config: 'Do', 'do', 'DO', 'To', 'to'
StatusNames ==
  {<<"D", "o">>, <<"d", "o">>, <<"D", "O">>, <<"T", "o">>, <<"t", "o">>}

\* config.jira.approvalStatus: not set, a string (also the empty one) or an
\* array of strings (also the empty one)
ApprovalStatuses ==
  {[type |-> "undefined", value |-> <<>>]}
    \cup {[type |-> "string", value |-> s] : s \in StatusNames \cup {<<>>}}
    \cup {[type |-> "array", value |-> a] :
            a \in UNION {[1..n -> StatusNames] : n \in 0..MaxStatuses}}

\* !approvalStatus
NotSet(approvalStatus) ==
  \/ approvalStatus.type = "undefined"
  \/ approvalStatus.type = "string" /\ approvalStatus.value = <<>>

\* if (!Array.isArray(approvalStatus)) approvalStatus = [approvalStatus]
AsArray(approvalStatus) ==
  IF approvalStatus.type = "array" THEN approvalStatus.value ELSE <<approvalStatus.value>>

\* a list of the configured statuses as they are written
StatusMatchAsWritten(list) == list

\* approvalStatus.map(s => s.toLowerCase())
StatusMatch(list) == [i \in 1..Len(list) |-> toLowerCase(list[i])]

\* Array.prototype.includes
Includes(list, v) == \E i \in 1..Len(list) : list[i] = v

\* the tickets pushed on out.approved (approved = TRUE) or on out.pending
RECURSIVE Pushed(_, _, _)
Pushed(ts, statusMatch, approved) ==
  IF ts = <<>>
    THEN <<>>
    ELSE LET name == toLowerCase(Head(ts).fields.status.name)
         IN (IF Includes(statusMatch, name) = approved THEN <<Head(ts)>> ELSE <<>>)
            \o Pushed(Tail(ts), statusMatch, approved)

groupTicketsByStatus(cfg, ts) ==
  LET approvalStatus == cfg.jira.approvalStatus
  IN IF NotSet(approvalStatus)
       THEN [approved |-> <<>>, pending |-> ts]
       ELSE LET statusMatch == StatusMatch(AsArray(approvalStatus))
            IN [approved |-> Pushed(ts, statusMatch, TRUE),
                pending |-> Pushed(ts, statusMatch, FALSE)]

InitGroup ==
  /\ impl = ImplRevert
  /\ IdleSteps
  /\ logs = <<>>
  /\ pc = "status"
  /\ graph = <<>>
  /\ log = NoLog
  /\ ret = Null
  /\ commits = <<>>
  /\ filtered = <<>>
  /\ tickets = <<>>
  /\ config \in {[jira |-> [approvalStatus |-> a]] : a \in ApprovalStatuses}
  /\ data = Null
  /\ IdleJira

\* one more ticket of the list, with its status
NewStatusTicket ==
  /\ pc = "status"
  /\ Len(tickets) < MaxStatusTickets
  /\ \E name \in StatusNames :
       tickets' = Append(tickets, [key |-> Hash(Len(tickets) + 1),
                                   fields |-> [status |-> [name |-> name]]])
  /\ UNCHANGED <<stepVars, impl, logs, pc, graph, log, ret, commits, filtered, config, data, jiraVars>>

GroupTicketsByStatus ==
  /\ pc = "status"
  /\ data' = groupTicketsByStatus(config, tickets)
  /\ pc' = "grouped"
  /\ UNCHANGED <<stepVars, impl, logs, graph, log, ret, commits, filtered, tickets, config, jiraVars>>

NextGroup == NewStatusTicket \/ GroupTicketsByStatus

SpecGroup == InitGroup /\ [][NextGroup]_vars

----------------------------------------------------------------------------
(* What the claim about groupTicketsByStatus speaks of *)

\* the two cases of one letter
CasePairs == {<<"D", "d">>, <<"O", "o">>, <<"T", "t">>}

SameLetter(a, b) == a = b \/ <<a, b>> \in CasePairs \/ <<b, a>> \in CasePairs

\* two texts are equal when the case of the letters is ignored
EqualIgnoringCase(s, t) ==
  Len(s) = Len(t) /\ \A i \in 1..Len(s) : SameLetter(s[i], t[i])

\* the configured approval statuses: those of the list, the single string,
\* or none
Configured ==
  LET a == config.jira.approvalStatus
  IN IF a.type = "array"
       THEN Range(a.value)
       ELSE IF a.type = "string" /\ a.value # <<>> THEN {a.value} ELSE {}

IsApproved(t) == \E s \in Configured : EqualIgnoringCase(s, t.fields.status.name)

IsPending(t) == ~IsApproved(t)

\* C13: groupTicketsByStatus puts the tickets whose status name equals a
\* configured approval status, ignoring case, on approved and all the
\* others on pending, both in the order of the input, so every ticket is on
\* exactly one list; with no approval status configured, or an empty list,
\* every ticket is pending.
C13_PartitionByStatus ==
  pc = "grouped" =>
    /\ data.approved = SelectSeq(tickets, IsApproved)
    /\ data.pending = SelectSeq(tickets, IsPending)
    /\ Configured = {} => data.approved = <<>> /\ data.pending = tickets

\* approved and pending tickets between each other, one of the approved
\* ones with a status written in another case than the configured one
C13_Witness ==
  /\ pc = "grouped"
  /\ Len(data.approved) >= 1
  /\ Len(data.pending) >= 1
  /\ Len(tickets) = MaxStatusTickets
  /\ IsPending(tickets[1]) /\ IsApproved(tickets[2]) /\ IsPending(tickets[3])
  /\ tickets[2].fields.status.name \notin Configured

----------------------------------------------------------------------------
(* template.transformCommitLogs.  A ticket object is a record of the list *)
(* `tickets`; its field ref is its position there, the identity of the    *)
(* object.  The tickets of a commit log are refs.                         *)

\* most commit logs handed to transformCommitLogs
MaxTransformLogs == 3

\* two ticket keys
KeyA == <<"A", "-", "1">>
KeyB == <<"B", "-", "1">>

\* the fields Jira holds for a ticket key: a story that is done, reported by
\* user 2, and a bug that is still to do, reported by user 1
FieldsOf(key) ==
  IF key = KeyA
    THEN [issuetype |-> [name |-> <<"S">>],
          status |-> [name |-> <<"D", "o">>],
          reporter |-> [email |-> <<"2">>, displayName |-> <<"2">>]]
    ELSE [issuetype |-> [name |-> <<"B">>],
          status |-> [name |-> <<"t", "o">>],
          reporter |-> [email |-> <<"1">>, displayName |-> <<"1">>]]

\* a ticket object as Jira.getJiraIssue resolves it
TicketObj(key, ref) ==
  [ref |-> ref, key |-> key, slackUser |-> Undefined, fields |-> FieldsOf(key)]

\* the ticket keys of one commit: each key at most once
KeyLists == {<<>>, <<KeyA>>, <<KeyB>>, <<KeyA, KeyB>>, <<KeyB, KeyA>>}

\* the ticket objects of one commit with the keys ks: new objects, or the
\* objects other commits hold for the same keys (the ticket promise of a key
\* resolves to one object for every commit)
RECURSIVE Allocate(_, _, _, _)
Allocate(heap, ks, fresh, refs) ==
  IF ks = <<>>
    THEN [heap |-> heap, refs |-> refs]
    ELSE LET known == {r \in 1..Len(heap) : heap[r].key = Head(ks)}
         IN IF fresh \/ known = {}
              THEN Allocate(Append(heap, TicketObj(Head(ks), Len(heap) + 1)),
                            Tail(ks), fresh, Append(refs, Len(heap) + 1))
              ELSE Allocate(heap, Tail(ks), fresh,
                            Append(refs, CHOOSE r \in known : \A q \in known : r <= q))

\* all[ticket.key] = ticket, whatever all[ticket.key] held
HashTicketLastWins(st, ref, logObj) ==
  LET key == st.heap[ref].key
      known == {i \in 1..Len(st.order) : st.heap[st.order[i]].key = key}
      list == IF "commits" \in DOMAIN st.heap[ref] THEN st.heap[ref].commits ELSE <<>>
  IN [heap |-> [st.heap EXCEPT ![ref] = Put(@, "commits", Append(list, logObj))],
      order |-> IF known = {}
                  THEN Append(st.order, ref)
                  ELSE [i \in 1..Len(st.order) |-> IF i \in known THEN ref ELSE st.order[i]]]

\* the callback of log.tickets.forEach(...): st.order holds the values of
\* the object `all` in the order of their keys
HashTicket(st, ref, logObj) ==
  LET key == st.heap[ref].key
      known == {r \in Range(st.order) : st.heap[r].key = key}
      kept == IF known = {} THEN ref ELSE CHOOSE r \in known : TRUE
      list == IF "commits" \in DOMAIN st.heap[kept] THEN st.heap[kept].commits ELSE <<>>
  IN [heap |-> [st.heap EXCEPT ![kept] = Put(@, "commits", Append(list, logObj))],
      order |-> IF known = {} THEN Append(st.order, ref) ELSE st.order]

\* log.tickets.forEach(...) from the ticket at position j on
RECURSIVE HashLog(_, _, _)
HashLog(st, logObj, j) ==
  IF j > Len(logObj.tickets)
    THEN st
    ELSE HashLog(HashTicket(st, logObj.tickets[j], logObj), logObj, j + 1)

\* reducedLogs.reduce((all, log) => ..., {}) from the log at position i on
RECURSIVE TicketHash(_, _, _)
TicketHash(st, reducedLogs, i) ==
  IF i > Len(reducedLogs)
    THEN st
    ELSE TicketHash(HashLog(st, reducedLogs[i], 1), reducedLogs, i + 1)

\* the reporter entries after tickets.forEach(...) from position i on
RECURSIVE Reporters(_, _, _)
Reporters(reporters, ts, i) ==
  IF i > Len(ts)
    THEN reporters
    ELSE LET ticket == ts[i]
             email == ticket.fields.reporter.email
             at == {k \in 1..Len(reporters) : reporters[k].email = email}
         IN IF at = {}
              THEN Reporters(Append(reporters,
                                    [email |-> email,
                                     name |-> ticket.fields.reporter.displayName,
                                     slackUser |-> ticket.slackUser,
                                     tickets |-> <<ticket>>]),
                             ts, i + 1)
              ELSE Reporters([k \in 1..Len(reporters) |->
                                IF k \in at
                                  THEN [reporters[k] EXCEPT !.tickets = Append(@, ticket)]
                                  ELSE reporters[k]],
                             ts, i + 1)

getTicketReporters(ts) ==
  LET reporters == Reporters(<<>>, ts, 1)
  IN Items(SortByKey([k \in 1..Len(reporters) |->
                        [key |-> reporters[k].name, item |-> reporters[k]]]))

\* the commits after the call, the ticket objects after the call and the
\* returned data
transformCommitLogs(cfg, cs, heap) ==
  LET r == filterRevertedCommits(cs)
      reducedLogs == [k \in 1..Len(r.acc) |-> r.cs[r.acc[k]]]
      ticketHash == TicketHash([heap |-> heap, order |-> <<>>], reducedLogs, 1)
      decorated == [q \in 1..Len(ticketHash.heap) |->
                      IF q \in Range(ticketHash.order)
                        THEN DecorateTicket(ticketHash.heap[q])
                        ELSE ticketHash.heap[q]]
      values == [i \in 1..Len(ticketHash.order) |-> decorated[ticketHash.order[i]]]
      ticketList == Items(SortByKey([i \in 1..Len(values) |->
                                       [key |-> values[i].fields.issuetype.name,
                                        item |-> values[i]]]))
      tixByStatus == groupTicketsByStatus(cfg, ticketList)
      pendingByOwner == getTicketReporters(tixByStatus.pending)
  IN [commits |-> r.cs,
      tickets |-> decorated,
      data |->
        [commits |->
           [all |-> reducedLogs,
            tickets |-> SelectSeq(reducedLogs, LAMBDA c : Len(c.tickets) # 0),
            noTickets |-> SelectSeq(reducedLogs, LAMBDA c : Len(c.tickets) = 0),
            reverted |-> SelectSeq(reducedLogs,
                                   LAMBDA c : Truthy(Or(c.reverted, c.revertedBy)))],
         tickets |->
           [pendingByOwner |-> pendingByOwner,
            all |-> ticketList,
            approved |-> tixByStatus.approved,
            pending |-> tixByStatus.pending,
            reverted |-> SelectSeq(ticketList, LAMBDA t : Truthy(t.reverted))]]]

InitTransform ==
  /\ impl = ImplRevert
  /\ IdleSteps
  /\ logs = <<>>
  /\ pc = "changelog"
  /\ graph = <<>>
  /\ log = NoLog
  /\ ret = Null
  /\ commits = <<>>
  /\ filtered = <<>>
  /\ tickets = <<>>
  /\ config \in {[jira |-> [approvalStatus |-> a]] :
                   a \in {[type |-> "undefined", value |-> <<>>],
                          [type |-> "array", value |-> <<<<"D", "O">>>>]}}
  /\ data = Null
  /\ IdleJira

\* one more commit log of the changelog, newest first, with the tickets
\* Jira.generate attached to it: a commit that reverts nothing, or the
\* revert of the commit made just before it (the next of the list, or a
\* commit before the range when the list ends here)
NewLog ==
  /\ pc = "changelog"
  /\ Len(commits) < MaxTransformLogs
  /\ \E reverted \in {Null, Hash(Len(commits) + 2)}, ks \in KeyLists, fresh \in BOOLEAN :
       /\ LET made == Allocate(tickets, ks, fresh, <<>>)
          IN /\ tickets' = made.heap
             /\ commits' = Append(commits,
                  [revision |-> Hash(Len(commits) + 1),
                   reverted |-> reverted,
                   revertedBy |-> Undefined,
                   date |-> <<DigitOf(MaxTransformLogs + 1 - Len(commits)), "+", "2">>,
                   tickets |-> made.refs])
  /\ UNCHANGED <<stepVars, impl, logs, pc, graph, log, ret, filtered, config, data, jiraVars>>

TransformCommitLogs ==
  /\ pc = "changelog"
  /\ LET r == transformCommitLogs(config, commits, tickets)
     IN /\ commits' = r.commits
        /\ tickets' = r.tickets
        /\ data' = r.data
  /\ pc' = "transformed"
  /\ UNCHANGED <<stepVars, impl, logs, graph, log, ret, filtered, config, jiraVars>>

NextTransform == NewLog \/ TransformCommitLogs

SpecTransform == InitTransform /\ [][NextTransform]_vars

----------------------------------------------------------------------------
(* What the claim about transformCommitLogs speaks of *)

\* commit log c references the ticket key
References(c, key) == \E j \in 1..Len(c.tickets) : tickets[c.tickets[j]].key = key

\* the position of the first of the logs that references the key
FirstSeen(ls, key) ==
  CHOOSE i \in 1..Len(ls) :
    /\ References(ls[i], key)
    /\ \A k \in 1..(i - 1) : ~References(ls[k], key)

\* C14: the commits transformCommitLogs keeps are those that survive the
\* revert filtering; tickets.all holds one ticket object for every ticket
\* key the kept commits reference and nothing else; the object is the one
\* of the first kept commit that references the key, and its commits list
\* holds every kept commit that references the key once, and no other.
C14_OneTicketPerKey ==
  pc = "transformed" =>
    LET kept == data.commits.all
        all == data.tickets.all
    IN /\ {kept[i].revision : i \in 1..Len(kept)} = Surviving
       /\ \A a, b \in 1..Len(all) : a # b => all[a].key # all[b].key
       /\ {all[a].key : a \in 1..Len(all)}
            = {key \in {KeyA, KeyB} : \E i \in 1..Len(kept) : References(kept[i], key)}
       /\ \A a \in 1..Len(all) :
            /\ all[a] = tickets[all[a].ref]
            /\ all[a].ref \in Range(kept[FirstSeen(kept, all[a].key)].tickets)
            /\ Range(all[a].commits) \subseteq Range(kept)
            /\ \A i \in 1..Len(kept) :
                 Cardinality({k \in 1..Len(all[a].commits) : all[a].commits[k] = kept[i]})
                   = IF References(kept[i], all[a].key) THEN 1 ELSE 0

\* two kept commits hold different objects of one ticket key, and a commit
\* that references a ticket is left out as a revert
C14_Witness ==
  /\ pc = "transformed"
  /\ \E i, j \in 1..Len(data.commits.all) :
       /\ i < j
       /\ \E x \in Range(data.commits.all[i].tickets),
             y \in Range(data.commits.all[j].tickets) :
            x # y /\ tickets[x].key = tickets[y].key
  /\ \E i \in 1..Len(commits) :
       /\ commits[i].revision \notin Surviving
       /\ commits[i].tickets # <<>>
  /\ Len(data.tickets.all) = 2

----------------------------------------------------------------------------
(* Jira.parseTicketsFromString.  The text is a string of the characters   *)
(* a B - 1 [ ] and the pattern is one of the two the repository uses,     *)
(* both with the flag i.                                                  *)

\* most characters of the text
MaxText == 6

\* /\[([A-Z]+\-[0-9]+)\]/i, the default of changelog.config.js
PatternBracketed == "\\[([A-Z]+\\-[0-9]+)\\]"
\* /[A-Z]+\-[0-9]+/i
PatternPlain == "[A-Z]+\\-[0-9]+"

TextChars == {"a", "B", "-", "1", "[", "]"}

\* [A-Z] with the flag i, and [0-9]
Letters == {"a", "A", "B"}
Digits == {"1"}

\* String.prototype.toUpperCase
UpperChar(c) == IF c = "a" THEN "A" ELSE c

toUpperCase(s) == [i \in 1..Len(s) |-> UpperChar(s[i])]

\* the position behind the longest run of characters of the class from p on
RECURSIVE RunEnd(_, _, _)
RunEnd(s, p, class) ==
  IF p <= Len(s) /\ s[p] \in class THEN RunEnd(s, p + 1, class) ELSE p

\* the position behind a match of [A-Z]+\-[0-9]+ at p, or 0
KeyEnd(s, p) ==
  LET l == RunEnd(s, p, Letters)
  IN IF l > p /\ l <= Len(s) /\ s[l] = "-" /\ RunEnd(s, l + 1, Digits) > l + 1
       THEN RunEnd(s, l + 1, Digits)
       ELSE 0

\* the position behind a match of the pattern at p, or 0
MatchEnd(pattern, s, p) ==
  IF pattern = PatternPlain
    THEN KeyEnd(s, p)
    ELSE IF p <= Len(s) /\ s[p] = "[" /\ KeyEnd(s, p + 1) # 0
                /\ KeyEnd(s, p + 1) <= Len(s) /\ s[KeyEnd(s, p + 1)] = "]"
           THEN KeyEnd(s, p + 1) + 1
           ELSE 0

\* str.match(searchPattern) || [], the pattern with the flag g: the matches
\* from position p on, left to right, not overlapping
RECURSIVE MatchAll(_, _, _)
MatchAll(pattern, s, p) ==
  IF p > Len(s)
    THEN <<>>
    ELSE IF MatchEnd(pattern, s, p) # 0
           THEN <<SubSeq(s, p, MatchEnd(pattern, s, p) - 1)>>
                  \o MatchAll(pattern, s, MatchEnd(pattern, s, p))
           ELSE MatchAll(pattern, s, p + 1)

\* match.match(configPattern): the first match at or behind p, with its
\* capture group when the pattern has one
RECURSIVE MatchFirst(_, _, _)
MatchFirst(pattern, s, p) ==
  IF p > Len(s)
    THEN Null
    ELSE IF MatchEnd(pattern, s, p) # 0
           THEN LET whole == SubSeq(s, p, MatchEnd(pattern, s, p) - 1)
                IN IF pattern = PatternPlain
                     THEN <<whole>>
                     ELSE <<whole, SubSeq(whole, 2, Len(whole) - 1)>>
           ELSE MatchFirst(pattern, s, p + 1)

\* the callback of matches.map(...); null for an empty key
KeyOfMatch(pattern, match) ==
  LET found == MatchFirst(pattern, match, 1)
      key == IF Len(found) > 1 THEN found[2] ELSE found[1]
  IN IF key = <<>> THEN Null ELSE toUpperCase(key)

parseTicketsFromString(cfg, str) ==
  LET configPattern == cfg.jira.ticketIDPattern
      matches == MatchAll(configPattern, str, 1)
      keys == [i \in 1..Len(matches) |-> KeyOfMatch(configPattern, matches[i])]
  IN SelectSeq(keys, LAMBDA m : m # Null)

InitParse ==
  /\ impl = ImplRevert
  /\ IdleSteps
  /\ logs = <<>>
  /\ pc = "text"
  /\ graph = <<>>
  /\ log = NoLog
  /\ ret = Null
  /\ commits = <<>>
  /\ filtered = <<>>
  /\ tickets = <<>>
  /\ config \in {[jira |-> [ticketIDPattern |-> p]] : p \in {PatternBracketed, PatternPlain}}
  /\ data = Null
  /\ IdleJira

\* one more character of the text
TypeChar ==
  /\ pc = "text"
  /\ Len(log.fullText) < MaxText
  /\ \E c \in TextChars : log' = [log EXCEPT !.fullText = Append(@, c)]
  /\ UNCHANGED <<stepVars, impl, logs, pc, graph, ret, commits, filtered, templateVars, jiraVars>>

ParseTicketsFromString ==
  /\ pc = "text"
  /\ ret' = parseTicketsFromString(config, log.fullText)
  /\ pc' = "parsed"
  /\ UNCHANGED <<stepVars, impl, logs, graph, log, commits, filtered, templateVars, jiraVars>>

NextParse == TypeChar \/ ParseTicketsFromString

SpecParse == InitParse /\ [][NextParse]_vars

----------------------------------------------------------------------------
(* What the claim about parseTicketsFromString speaks of *)

\* the list without the entries that occur earlier in it
RECURSIVE Dedupe(_)
Dedupe(s) ==
  IF s = <<>>
    THEN <<>>
    ELSE LET front == Dedupe(SubSeq(s, 1, Len(s) - 1))
         IN IF \E i \in 1..Len(front) : front[i] = s[Len(s)]
              THEN front
              ELSE Append(front, s[Len(s)])

\* the ticket key of a match: capture group 1 of the bracketed pattern, the
\* whole match of the plain one
KeyText(match) ==
  IF config.jira.ticketIDPattern = PatternPlain
    THEN match
    ELSE SubSeq(match, 2, Len(match) - 1)

\* the keys found in the text, in uppercase, one for every match
KeysFound ==
  LET matches == MatchAll(config.jira.ticketIDPattern, log.fullText, 1)
  IN [i \in 1..Len(matches) |-> toUpperCase(KeyText(matches[i]))]

\* C15: parseTicketsFromString returns the ticket keys found in the text in
\* uppercase, in the order of their first occurrence and each once; the
\* key is capture group 1 of the pattern, or the whole match of a pattern
\* without a group; a text without a match gives the empty list.
C15_KeysOnceInOrder ==
  pc = "parsed" => ret = Dedupe(KeysFound)

----------------------------------------------------------------------------
(* class Jira: generate, findJiraInCommit, fetchJiraTicket, includeTicket. *)
(* A promise of this.ticketPromises is "none" (no entry), "queued" (handed *)
(* to promiseThrottle), "pending" (getJiraIssue started), "fulfilled" or   *)
(* "rejected".  A flow is one call of findJiraInCommit: the keys it        *)
(* fetched and whether it has resolved.  generate is called without a      *)
(* release version.                                                        *)

\* most commit logs handed to generate
MaxJiraCommits == 3

Keys == {KeyA, KeyB}

\* the mentions of tickets in commit messages
TextA == <<"[", "a", "-", "1", "]">>
TextUpperA == <<"[", "A", "-", "1", "]">>
TextB == <<"[", "B", "-", "1", "]">>

\* the messages of commits: without a ticket, with one ticket, with two
\* tickets, with one ticket mentioned twice
CommitTexts ==
  {<<"a">>, TextA, TextB, TextA \o TextB, TextB \o TextA, TextA \o TextUpperA}

\* includeIssueTypes / excludeIssueTypes: null or an array of type names
NoList == [type |-> "null", value |-> <<>>]

ArrayOf(list) == [type |-> "array", value |-> list]

\* Array.isArray
IsArray(v) == v.type = "array"

\* the one ticket object the promise of a key is fulfilled with
FetchedTicket(key) == TicketObj(key, IF key = KeyA THEN 1 ELSE 2)

\* a filter on which excludeIssueTypes wins over includeIssueTypes
includeTicketExcludeFirst(cfg, ticket) ==
  IF "fields" \notin DOMAIN ticket
    THEN FALSE
    ELSE LET type == ticket.fields.issuetype.name
             includeIssueTypes == cfg.jira.includeIssueTypes
             excludeIssueTypes == cfg.jira.excludeIssueTypes
         IN IF IsArray(excludeIssueTypes)
              THEN ~Includes(excludeIssueTypes.value, type)
              ELSE IF IsArray(includeIssueTypes) /\ Len(includeIssueTypes.value) # 0
                     THEN Includes(includeIssueTypes.value, type)
                     ELSE TRUE

includeTicket(cfg, ticket) ==
  IF "fields" \notin DOMAIN ticket
    THEN FALSE
    ELSE LET type == ticket.fields.issuetype.name
             includeIssueTypes == cfg.jira.includeIssueTypes
             excludeIssueTypes == cfg.jira.excludeIssueTypes
         IN IF IsArray(includeIssueTypes) /\ Len(includeIssueTypes.value) # 0
              THEN Includes(includeIssueTypes.value, type)
              ELSE IF IsArray(excludeIssueTypes)
                     THEN ~Includes(excludeIssueTypes.value, type)
                     ELSE TRUE

\* constructor: this.ticketPromises = {}; queue is the queue of promiseThrottle
NewJira ==
  [ticketPromises |-> [k \in Keys |-> "none"],
   queue |-> <<>>,
   started |-> [k \in Keys |-> 0],
   flows |-> <<>>,
   logs |-> <<>>]

\* a fetch that asks promiseThrottle for a lookup whatever ticketPromises holds
fetchJiraTicketUncached(j, ticketKey) ==
  [j EXCEPT !.ticketPromises[ticketKey] = "queued", !.queue = Append(@, ticketKey)]

fetchJiraTicket(j, ticketKey) ==
  IF j.ticketPromises[ticketKey] = "none"
    THEN [j EXCEPT !.ticketPromises[ticketKey] = "queued", !.queue = Append(@, ticketKey)]
    ELSE j

\* a loop that fetches every key of the list, also one it fetched before
RECURSIVE FetchKeysEvery(_, _, _, _)
FetchKeysEvery(j, ticketKeys, found, fetched) ==
  IF ticketKeys = <<>>
    THEN [jira |-> j, fetched |-> fetched]
    ELSE FetchKeysEvery(fetchJiraTicket(j, Head(ticketKeys)), Tail(ticketKeys),
                        found, Append(fetched, Head(ticketKeys)))

\* ticketKeys.forEach((key) => ...): the instance and the keys fetched
RECURSIVE FetchKeys(_, _, _, _)
FetchKeys(j, ticketKeys, found, fetched) ==
  IF ticketKeys = <<>>
    THEN [jira |-> j, fetched |-> fetched]
    ELSE IF Head(ticketKeys) \in found
           THEN FetchKeys(j, Tail(ticketKeys), found, fetched)
           ELSE FetchKeys(fetchJiraTicket(j, Head(ticketKeys)), Tail(ticketKeys),
                          found \cup {Head(ticketKeys)}, Append(fetched, Head(ticketKeys)))

\* findJiraInCommit up to its await
findJiraInCommit(j, cfg, commitLog) ==
  LET ticketKeys == parseTicketsFromString(cfg, commitLog.fullText)
      r == FetchKeys(j, ticketKeys, {}, <<>>)
  IN [r.jira EXCEPT !.flows = Append(@, [fetched |-> r.fetched, done |-> FALSE])]

\* commitLogs.map((commit) => this.findJiraInCommit(commit, ...)) from i on
RECURSIVE MapCommits(_, _, _, _)
MapCommits(j, cfg, commitLogs, i) ==
  IF i > Len(commitLogs)
    THEN j
    ELSE MapCommits(findJiraInCommit(j, cfg, commitLogs[i]), cfg, commitLogs, i + 1)

Settled(j, k) == j.ticketPromises[k] \in {"fulfilled", "rejected"}

\* a flow that goes on only when every fetch was fulfilled: no catch on the
\* fetches
ReadyWhenFulfilled(j, i) ==
  ~j.flows[i].done /\ \A k \in Range(j.flows[i].fetched) : j.ticketPromises[k] = "fulfilled"

\* Promise.all(promises) of flow i has resolved and the flow has not gone on
Ready(j, i) ==
  ~j.flows[i].done /\ \A k \in Range(j.flows[i].fetched) : Settled(j, k)

\* tickets.filter(t => (t && this.includeTicket(t))): undefined stands for
\* a rejected fetch
FlowTickets(j, cfg, i) ==
  LET kept == SelectSeq(j.flows[i].fetched,
                        LAMBDA k : j.ticketPromises[k] = "fulfilled"
                                     /\ includeTicket(cfg, FetchedTicket(k)))
  IN [n \in 1..Len(kept) |-> FetchedTicket(kept[n])]

\* the jobs that run once the waiting is over: every flow that is ready
\* goes on behind its await, in the order of the commits, and its log is
\* pushed on logs
RECURSIVE Drain(_, _, _, _)
Drain(j, cfg, commitLogs, i) ==
  IF i > Len(commitLogs)
    THEN j
    ELSE IF Ready(j, i)
           THEN Drain([j EXCEPT !.flows[i].done = TRUE,
                                !.logs = Append(@, Put(commitLogs[i], "tickets",
                                                       FlowTickets(j, cfg, i)))],
                      cfg, commitLogs, i + 1)
           ELSE Drain(j, cfg, commitLogs, i + 1)

\* await Promise.all(promises) of generate is over
AllDone(j) == \A i \in 1..Len(j.flows) : j.flows[i].done

JiraConfigs ==
  {[jira |-> [ticketIDPattern |-> PatternBracketed,
              includeIssueTypes |-> inc,
              excludeIssueTypes |-> exc]] :
     inc \in {NoList, ArrayOf(<<>>)}, exc \in {NoList, ArrayOf(<<<<"B">>>>)}}

InitJira ==
  /\ impl = ImplRevert
  /\ IdleSteps
  /\ logs = <<>>
  /\ pc = "jira"
  /\ graph = <<>>
  /\ log = NoLog
  /\ ret = Null
  /\ commits = <<>>
  /\ filtered = <<>>
  /\ tickets = <<>>
  /\ config \in JiraConfigs
  /\ data = Null
  /\ changelog = <<>>
  /\ jira = NewJira

\* one more commit log of the list handed to generate
NewCommit ==
  /\ pc = "jira"
  /\ Len(changelog) < MaxJiraCommits
  /\ \E text \in CommitTexts :
       changelog' = Append(changelog, [revision |-> Hash(Len(changelog) + 1),
                                       fullText |-> text])
  /\ UNCHANGED <<stepVars, impl, logs, pc, graph, log, ret, commits, filtered, templateVars, jira>>

\* generate(commitLogs) up to its await, and the jobs that follow at once
Generate ==
  /\ pc = "jira"
  /\ LET j == Drain(MapCommits(jira, config, changelog, 1), config, changelog, 1)
     IN /\ jira' = j
        /\ pc' = IF AllDone(j) THEN "generated" ELSE "generating"
  /\ UNCHANGED <<stepVars, impl, logs, graph, log, ret, commits, filtered, templateVars, changelog>>

\* promiseThrottle starts the next lookup of its queue: getJiraIssue(key)
StartLookup ==
  /\ pc = "generating"
  /\ jira.queue # <<>>
  /\ LET k == Head(jira.queue)
     IN jira' = [jira EXCEPT !.queue = Tail(@),
                             !.started[k] = @ + 1,
                             !.ticketPromises[k] = IF @ = "queued" THEN "pending" ELSE @]
  /\ UNCHANGED <<stepVars, impl, logs, pc, graph, log, ret, commits, filtered, templateVars, changelog>>

\* a lookup ends, with the ticket or with an error, and the jobs that follow
SettleLookup ==
  /\ pc = "generating"
  /\ \E k \in Keys, outcome \in {"fulfilled", "rejected"} :
       /\ jira.ticketPromises[k] = "pending"
       /\ LET j == Drain([jira EXCEPT !.ticketPromises[k] = outcome],
                         config, changelog, 1)
          IN /\ jira' = j
             /\ pc' = IF AllDone(j) THEN "generated" ELSE "generating"
  /\ UNCHANGED <<stepVars, impl, logs, graph, log, ret, commits, filtered, templateVars, changelog>>

NextJira == NewCommit \/ Generate \/ StartLookup \/ SettleLookup

SpecJira == InitJira /\ [][NextJira]_vars

----------------------------------------------------------------------------
(* What the claims about class Jira speak of *)

Generating == pc \in {"generating", "generated"}

\* the ticket keys the message of commit i mentions, one for every mention,
\* and each of them once in the order of the first mention
Mentioned(i) == parseTicketsFromString(config, changelog[i].fullText)

DistinctKeys(i) == Dedupe(Mentioned(i))

\* the keys of commit i whose ticket was fetched and is of an included type
Attached(i) ==
  SelectSeq(DistinctKeys(i),
            LAMBDA k : jira.ticketPromises[k] = "fulfilled"
                         /\ includeTicket(config, FetchedTicket(k)))

\* the positions of the logs of commit i in the list generate builds
LogsOf(i) == {n \in 1..Len(jira.logs) : jira.logs[n].revision = changelog[i].revision}

TicketKeys(l) == [n \in 1..Len(l.tickets) |-> l.tickets[n].key]

\* a lookup is waiting in the queue of promiseThrottle or on the network
Outstanding == \E k \in Keys : jira.ticketPromises[k] \in {"queued", "pending"}

\* the flows that fetched key k
FlowsOf(k) == {i \in 1..Len(jira.flows) : k \in Range(jira.flows[i].fetched)}

\* C16: findJiraInCommit calls fetchJiraTicket once for every distinct key
\* of the commit, in the order of the first mention, and the tickets of the
\* log it resolves to are the fetched tickets of these keys in that order,
\* each once, without those whose fetch failed and those of an excluded type.
C16_OneFetchPerKey ==
  Generating =>
    \A i \in 1..Len(changelog) :
      /\ jira.flows[i].fetched = DistinctKeys(i)
      /\ \A n \in LogsOf(i) :
           /\ TicketKeys(jira.logs[n]) = Attached(i)
           /\ \A t \in 1..Len(jira.logs[n].tickets) :
                jira.logs[n].tickets[t] = FetchedTicket(jira.logs[n].tickets[t].key)

\* a commit that mentions one key twice got its ticket, and the log of a
\* commit with two keys holds one ticket only
C16_Witness ==
  /\ pc = "generated"
  /\ \E i \in 1..Len(changelog) :
       /\ Len(Mentioned(i)) > Len(DistinctKeys(i))
       /\ Len(Attached(i)) = 1
  /\ \E i \in 1..Len(changelog) :
       /\ Len(DistinctKeys(i)) = 2
       /\ \E n \in LogsOf(i) : Len(jira.logs[n].tickets) = 1

\* C17: at every moment of a generate run getJiraIssue has been started at
\* most once for every ticket key, whatever the number of commits that
\* mention the key and whatever the outcome of the lookup.
C17_OneLookupPerKey ==
  pc \in {"jira", "generating", "generated"} =>
    \A k \in Keys : jira.started[k] <= 1

\* the lookup of a key that two commits mention has failed
C17_Witness ==
  /\ pc = "generated"
  /\ \E k \in Keys :
       /\ Cardinality(FlowsOf(k)) >= 2
       /\ jira.ticketPromises[k] = "rejected"
       /\ jira.started[k] = 1

\* C18: once no lookup is outstanding generate has resolved, also when
\* lookups have failed; the list it resolves to holds one log for every
\* input commit, and the tickets of that log are the tickets of the commit
\* that were fetched and are included: only those that failed are missing.
C18_FailuresAreNotFatal ==
  (Generating /\ ~Outstanding) =>
    /\ pc = "generated"
    /\ Len(jira.logs) = Len(changelog)
    /\ \A i \in 1..Len(changelog) :
         /\ Cardinality(LogsOf(i)) = 1
         /\ \A n \in LogsOf(i) :
              /\ jira.logs[n] = Put(changelog[i], "tickets", jira.logs[n].tickets)
              /\ TicketKeys(jira.logs[n]) = Attached(i)

\* generate has resolved although the lookup of one of the two tickets of a
\* commit failed
C18_Witness ==
  /\ pc = "generated"
  /\ Len(changelog) >= 2
  /\ \E i \in 1..Len(changelog) :
       /\ Len(DistinctKeys(i)) = 2
       /\ \E k \in Range(DistinctKeys(i)) : jira.ticketPromises[k] = "rejected"
       /\ \E k \in Range(DistinctKeys(i)) : jira.ticketPromises[k] = "fulfilled"

\* C19: the i-th element of the list generate resolves to is the log of the
\* i-th input commit, with the tickets of that commit.
C19_ResultInInputOrder ==
  pc = "generated" =>
    /\ Len(jira.logs) = Len(changelog)
    /\ \A i \in 1..Len(changelog) :
         /\ jira.logs[i].revision = changelog[i].revision
         /\ TicketKeys(jira.logs[i]) = Attached(i)

----------------------------------------------------------------------------
(* Jira.includeTicket on its own *)

\* most type names of includeIssueTypes and of excludeIssueTypes
MaxTypes == 2

\* the issue types of tickets; no list of the config names the third
TypeNames == {<<"S">>, <<"B">>, <<"T">>}

\* null or a list of the types 'S' and 'B'
TypeLists ==
  {NoList} \cup {ArrayOf(l) : l \in UNION {[1..n -> {<<"S">>, <<"B">>}] : n \in 0..MaxTypes}}

\* a ticket as jira.findIssue resolves it, and an object without fields
IncludeTickets ==
  {[key |-> KeyA, fields |-> [issuetype |-> [name |-> type]]] : type \in TypeNames}
    \cup {[key |-> KeyA]}

InitInclude ==
  /\ impl = ImplRevert
  /\ IdleSteps
  /\ logs = <<>>
  /\ pc = "ticket"
  /\ graph = <<>>
  /\ log = NoLog
  /\ ret = Null
  /\ commits = <<>>
  /\ filtered = <<>>
  /\ tickets = <<>>
  /\ config \in {[jira |-> [ticketIDPattern |-> PatternBracketed,
                            includeIssueTypes |-> inc,
                            excludeIssueTypes |-> exc]] :
                   inc \in TypeLists, exc \in TypeLists}
  /\ data = Null
  /\ IdleJira

IncludeTicket ==
  /\ pc = "ticket"
  /\ \E ticket \in IncludeTickets :
       data' = [ticket |-> ticket, included |-> includeTicket(config, ticket)]
  /\ pc' = "included"
  /\ UNCHANGED <<stepVars, impl, logs, graph, log, ret, commits, filtered, tickets, config, jiraVars>>

NextInclude == IncludeTicket

SpecInclude == InitInclude /\ [][NextInclude]_vars

\* C20: for a ticket with an issue type, includeTicket answers whether the
\* type is in includeIssueTypes when that is a list that is not empty,
\* whatever excludeIssueTypes holds; otherwise whether the type is not in
\* excludeIssueTypes when that is a list; and true when neither is set.
\* An object without fields is not included.
C20_IncludeWins ==
  pc = "included" =>
    LET inc == config.jira.includeIssueTypes
        exc == config.jira.excludeIssueTypes
    IN IF "fields" \in DOMAIN data.ticket
         THEN LET type == data.ticket.fields.issuetype.name
              IN data.included =
                   IF inc.type = "array" /\ inc.value # <<>>
                     THEN type \in Range(inc.value)
                     ELSE IF exc.type = "array"
                            THEN type \notin Range(exc.value)
                            ELSE TRUE
         ELSE data.included = FALSE

\* a ticket whose type is on both lists is included
C20_Witness ==
  /\ pc = "included"
  /\ "fields" \in DOMAIN data.ticket
  /\ config.jira.includeIssueTypes.type = "array"
  /\ config.jira.excludeIssueTypes.type = "array"
  /\ data.ticket.fields.issuetype.name \in Range(config.jira.includeIssueTypes.value)
  /\ data.ticket.fields.issuetype.name \in Range(config.jira.excludeIssueTypes.value)
  /\ data.included


----------------------------------------------------------------------------
(* Jira.addTicketsToReleaseVersion and Jira.createProjectVersion.
   promiseThrottle starts the per-ticket updates one after the other in the
   order they were added; the answers of Jira arrive in any order. *)

\* most tickets handed to addTicketsToReleaseVersion
MaxReleaseTickets == 3

\* ticket.fields.project.key
Projects == {"proj1", "proj2"}

\* the name of the release, and the name of another version
ReleaseName == <<"d">>
OtherName == <<"o">>

\* what jira.getVersions(project) holds before the call: nothing, the
\* version 'D', or the versions 'o' and 'd'
VersionLists ==
  {<<>>, <<[name |-> <<"D">>]>>, <<[name |-> OtherName], [name |-> ReleaseName]>>}

\* ticket.fields.fixVersions before the call
FixVersionLists == {<<>>, <<[name |-> OtherName]>>}

ReleaseTicket(id, project, fixVersions) ==
  [id |-> id, fields |-> [project |-> [key |-> project], fixVersions |-> fixVersions]]

\* the instance at the call of addTicketsToReleaseVersion(tickets, versionName)
\* and the versions Jira holds for every project
NewRelease(versionName, versions) ==
  [versionName |-> versionName,
   versions |-> versions,
   existing |-> versions,
   versionPromises |-> [p \in Projects |-> "none"],
   versionObj |-> [p \in Projects |-> Null],
   releaseVersions |-> <<>>,
   queue |-> <<>>,
   flows |-> <<>>,
   getVersions |-> <<>>,
   createVersion |-> <<>>,
   updateIssue |-> <<>>]

\* versions.find(v => v.name.toLowerCase() == searchName): the index found,
\* 0 when there is none
Find(versions, searchName) ==
  IF \E n \in 1..Len(versions) : toLowerCase(versions[n].name) = searchName
    THEN CHOOSE n \in 1..Len(versions) :
           /\ toLowerCase(versions[n].name) = searchName
           /\ \A m \in 1..(n - 1) : toLowerCase(versions[m].name) # searchName
    ELSE 0

\* createProjectVersion up to its first await: jira.getVersions(projectKey)
createProjectVersion(j, projectKey) ==
  [j EXCEPT !.versionPromises[projectKey] = "versions",
            !.getVersions = Append(@, projectKey)]

\* a lookup that finds no promise for any project
VersionPromiseNone(j, project) == "none"

\* let verPromise = versionPromises[project]
VersionPromise(j, project) == j.versionPromises[project]

\* updateTicketVersion(ticket) up to await verPromise
updateTicketVersion(j, ts, i) ==
  LET project == ts[i].fields.project.key
      j1 == IF VersionPromise(j, project) = "none"
              THEN createProjectVersion(j, project)
              ELSE j
  IN [j1 EXCEPT !.flows[i] = "version"]

\* updateTicketVersion behind await verPromise, for every ticket that waits
\* for a settled verPromise, in the order in which they began to wait:
\* fixVersions.push({name: versionObj.name}) and jira.updateIssue(ticket.id,
\* {fields: {fixVersions}}); a rejected verPromise ends in the catch
RECURSIVE ResumeUpdates(_, _, _)
ResumeUpdates(j, ts, i) ==
  IF i > Len(ts)
    THEN [jira |-> j, tickets |-> ts]
    ELSE LET project == ts[i].fields.project.key
         IN IF j.flows[i] = "version" /\ j.versionPromises[project] = "fulfilled"
              THEN LET fixVersions == Append(ts[i].fields.fixVersions,
                                             [name |-> j.versionObj[project].name])
                   IN ResumeUpdates(
                        [j EXCEPT !.flows[i] = "update",
                                  !.updateIssue = Append(@, [id |-> ts[i].id,
                                                             fixVersions |-> fixVersions])],
                        [ts EXCEPT ![i].fields.fixVersions = fixVersions],
                        i + 1)
              ELSE IF j.flows[i] = "version" /\ j.versionPromises[project] = "rejected"
                     THEN ResumeUpdates([j EXCEPT !.flows[i] = "caught"], ts, i + 1)
                     ELSE ResumeUpdates(j, ts, i + 1)

\* verPromise.then((ver) => { ver.projectKey = project;
\* this.releaseVersions.push(ver); })
VersionResolved(j, project, ver) ==
  LET v == Put(ver, "projectKey", project)
  IN [j EXCEPT !.versionPromises[project] = "fulfilled",
               !.versionObj[project] = v,
               !.releaseVersions = Append(@, v)]

\* Promise.all(promises) has resolved: every update ended or was caught
Released(j) == \A i \in 1..Len(j.flows) : j.flows[i] \in {"updated", "caught"}

InitRelease ==
  /\ impl = ImplRevert
  /\ IdleSteps
  /\ logs = <<>>
  /\ pc = "release"
  /\ graph = <<>>
  /\ log = NoLog
  /\ ret = Null
  /\ commits = <<>>
  /\ filtered = <<>>
  /\ tickets = <<>>
  /\ config = Null
  /\ data = Null
  /\ changelog = <<>>
  /\ \E versions \in [Projects -> VersionLists] :
       jira = NewRelease(ReleaseName, versions)

\* one more ticket of the list handed to addTicketsToReleaseVersion
NewReleaseTicket ==
  /\ pc = "release"
  /\ Len(tickets) < MaxReleaseTickets
  /\ \E project \in Projects, fixVersions \in FixVersionLists :
       tickets' = Append(tickets, ReleaseTicket(Len(tickets) + 1, project, fixVersions))
  /\ UNCHANGED <<stepVars, impl, logs, pc, graph, log, ret, commits, filtered, config, data, jiraVars>>

\* addTicketsToReleaseVersion(tickets, versionName): every update is handed
\* to promiseThrottle
AddTicketsToReleaseVersion ==
  /\ pc = "release"
  /\ jira' = [jira EXCEPT !.queue = [i \in 1..Len(tickets) |-> i],
                          !.flows = [i \in 1..Len(tickets) |-> "queued"]]
  /\ pc' = IF tickets = <<>> THEN "released" ELSE "releasing"
  /\ UNCHANGED <<stepVars, impl, logs, graph, log, ret, commits, filtered, templateVars, changelog>>

\* promiseThrottle starts the next update of its queue
StartUpdate ==
  /\ pc = "releasing"
  /\ jira.queue # <<>>
  /\ LET i == Head(jira.queue)
         r == ResumeUpdates(updateTicketVersion([jira EXCEPT !.queue = Tail(@)], tickets, i),
                            tickets, 1)
     IN /\ jira' = r.jira
        /\ tickets' = r.tickets
        /\ pc' = IF Released(r.jira) THEN "released" ELSE "releasing"
  /\ UNCHANGED <<stepVars, impl, logs, graph, log, ret, commits, filtered, config, data, changelog>>

\* jira.getVersions(project) answers or fails: createProjectVersion goes on
VersionsAnswer ==
  /\ pc = "releasing"
  /\ \E project \in Projects, ok \in BOOLEAN :
       /\ jira.versionPromises[project] = "versions"
       /\ LET versions == jira.versions[project]
              found == Find(versions, toLowerCase(jira.versionName))
              j == IF ~ok
                     THEN [jira EXCEPT !.versionPromises[project] = "rejected"]
                     ELSE IF found # 0
                            THEN VersionResolved(jira, project, versions[found])
                            ELSE [jira EXCEPT !.versionPromises[project] = "create",
                                              !.createVersion = Append(@, project)]
              r == ResumeUpdates(j, tickets, 1)
          IN /\ jira' = r.jira
             /\ tickets' = r.tickets
             /\ pc' = IF Released(r.jira) THEN "released" ELSE "releasing"
  /\ UNCHANGED <<stepVars, impl, logs, graph, log, ret, commits, filtered, config, data, changelog>>

\* jira.createVersion({name, project}) answers or fails
CreateAnswer ==
  /\ pc = "releasing"
  /\ \E project \in Projects, ok \in BOOLEAN :
       /\ jira.versionPromises[project] = "create"
       /\ LET ver == [name |-> jira.versionName]
              j == IF ok
                     THEN VersionResolved([jira EXCEPT !.versions[project] = Append(@, ver)],
                                          project, ver)
                     ELSE [jira EXCEPT !.versionPromises[project] = "rejected"]
              r == ResumeUpdates(j, tickets, 1)
          IN /\ jira' = r.jira
             /\ tickets' = r.tickets
             /\ pc' = IF Released(r.jira) THEN "released" ELSE "releasing"
  /\ UNCHANGED <<stepVars, impl, logs, graph, log, ret, commits, filtered, config, data, changelog>>

\* jira.updateIssue(ticket.id, ...) answers or fails; the failure is caught
UpdateAnswer ==
  /\ pc = "releasing"
  /\ \E i \in 1..Len(tickets), ok \in BOOLEAN :
       /\ jira.flows[i] = "update"
       /\ LET j == [jira EXCEPT !.flows[i] = IF ok THEN "updated" ELSE "caught"]
          IN /\ jira' = j
             /\ pc' = IF Released(j) THEN "released" ELSE "releasing"
  /\ UNCHANGED <<stepVars, impl, logs, graph, log, ret, commits, filtered, templateVars, changelog>>

NextRelease ==
  \/ NewReleaseTicket
  \/ AddTicketsToReleaseVersion
  \/ StartUpdate
  \/ VersionsAnswer
  \/ CreateAnswer
  \/ UpdateAnswer

SpecRelease == InitRelease /\ [][NextRelease]_vars

----------------------------------------------------------------------------
(* What the claims about release versions speak of *)

Releasing == pc \in {"releasing", "released"}

\* how often createVersion was called for the project
Created(project) ==
  Cardinality({n \in 1..Len(jira.createVersion) : jira.createVersion[n] = project})

\* the project had a version of the release name, ignoring case, before the call
HadVersion(project) ==
  Find(jira.existing[project], toLowerCase(jira.versionName)) # 0

\* C21: during one addTicketsToReleaseVersion call createVersion is called at
\* most once for every project, whatever the number of tickets and the order
\* of the answers, and never for a project that has a version whose name is
\* the release name ignoring case.
C21_OneVersionPerProject ==
  Releasing =>
    \A project \in Projects :
      /\ Created(project) <= 1
      /\ HadVersion(project) => Created(project) = 0

\* two tickets of one project were handled after one createVersion call,
\* and a ticket of the other project reused the version 'D' for release 'd'
C21_Witness ==
  /\ pc = "released"
  /\ \E p \in Projects :
       /\ Cardinality({i \in 1..Len(tickets) : tickets[i].fields.project.key = p}) >= 2
       /\ Created(p) = 1
  /\ \E p \in Projects :
       /\ jira.existing[p] = <<[name |-> <<"D">>]>>
       /\ \E i \in 1..Len(tickets) :
            /\ tickets[i].fields.project.key = p
            /\ jira.flows[i] = "updated"


\* ticket.fields.fixVersions of ticket i before the call: what it holds now
\* without the entry an update has pushed
Former(i) ==
  IF jira.flows[i] \in {"update", "updated"}
       \/ (jira.flows[i] = "caught" /\ \E n \in 1..Len(jira.updateIssue) :
                                         jira.updateIssue[n].id = tickets[i].id)
    THEN SubSeq(tickets[i].fields.fixVersions, 1, Len(tickets[i].fields.fixVersions) - 1)
    ELSE tickets[i].fields.fixVersions

\* C22: when the promise of addTicketsToReleaseVersion has resolved,
\* updateIssue was called once for every ticket, in the order of the ticket
\* list, with the former fixVersions of the ticket followed by the release
\* name; a failed update of one ticket neither stops the others nor rejects
\* the promise.
C22_EveryTicketUpdatedInOrder ==
  pc = "released" =>
    /\ Len(jira.updateIssue) = Len(tickets)
    /\ \A i \in 1..Len(tickets) :
         /\ jira.updateIssue[i].id = tickets[i].id
         /\ jira.updateIssue[i].fixVersions =
              Append(Former(i), [name |-> jira.versionName])


----------------------------------------------------------------------------
(* What the claims about running the graph functions on any input, and on  *)
(* their own output, speak of                                              *)

\* C23: simpleTopLevelGraph returns without throwing for every list of
\* commit records with string fields, whatever the strings hold: also for a
\* fullText that matches the revert pattern under a summary that does not
\* begin with 'Revert "', for parents that are missing and for commits that
\* are not reachable.
C23_ReturnsForEveryInput ==
  pc \in {"graphed", "consolidated", "threw"} => pc # "threw"


----------------------------------------------------------------------------
(* A caller that runs consolodateCommitMessages on its own output: the     *)
(* list holds the same commit objects, so the second run reads the texts   *)
(* the first one has written.                                              *)

\* most commits, and most parent links, of a list that is consolidated twice
MaxTwiceLogs == 3
MaxTwiceLinks == 2

TwiceKinds == {"plain", "blank", "revert"}

ReadLogTwice ==
  /\ pc = "log"
  /\ Len(logs) < MaxTwiceLogs
  /\ \E p \in ParentLists, kind \in TwiceKinds :
       /\ Len(p) <= 2
       /\ \A k \in 1..Len(p) : p[k] <= MaxTwiceLogs
       /\ Links(logs) + Len(p) <= MaxTwiceLinks
       /\ logs' = Append(logs, [revision |-> Len(logs) + 1, parents |-> p,
                                summary |-> Message(kind, Len(logs) + 1).summary,
                                fullText |-> Message(kind, Len(logs) + 1).fullText])
  /\ UNCHANGED <<stepVars, impl, pc, graph, log, ret, commits, filtered, templateVars, jiraVars>>

ConsolodateAgain ==
  /\ pc = "consolidated"
  /\ graph' = consolodateCommitMessages(impl, graph)
  /\ pc' = "consolidated twice"
  /\ UNCHANGED <<stepVars, impl, logs, log, ret, commits, filtered, templateVars, jiraVars>>

NextTwice ==
  \/ ReadLogTwice
  \/ SimpleTopLevelGraph
  \/ ConsolodateCommitMessages
  \/ ConsolodateAgain

SpecTwice == InitGraph /\ [][NextTwice]_vars

----------------------------------------------------------------------------
(* What the claims about a second run speak of *)

SecondRun == pc = "consolidated" /\ pc' = "consolidated twice"

\* the trimmed texts the loaded revision appends for top-level commit i:
\* those of all merged commits, or of those that are no reverts
Appended(i, field) == MergedTexts(i, 1, field, impl = ImplPlain)

\* the text of top-level commit i followed once more by the appended texts
AppendedAgain(i, field) == Trim(JoinLines(<<graph[i][field]>> \o Appended(i, field)))

AllEmpty(texts) == \A n \in 1..Len(texts) : texts[n] = <<>>

\* C24, as stated: a second run of consolodateCommitMessages on its own
\* output leaves summary and fullText of a top-level commit as they are
\* when its merged list is empty, and changes the text, appending the
\* merged messages once more, when the merged list is not empty.
C24_AsStated ==
  [][SecondRun =>
       \A i \in 1..Len(graph) :
         IF graph[i].graph.merged = <<>>
           THEN /\ graph'[i].summary = graph[i].summary
                /\ graph'[i].fullText = graph[i].fullText
           ELSE \/ graph'[i].summary # graph[i].summary
                \/ graph'[i].fullText # graph[i].fullText]_vars

\* C24, as the code has it: the second run appends to fullText (and, in the
\* revision of SourceControl.js, to summary) the trimmed texts of the merged
\* commits once more, in the later revision without the reverted ones; the
\* text stays as it is exactly when every text appended is empty, as it is
\* for an empty merged list.
C24_SecondRunAppendsAgain ==
  [][SecondRun =>
       \A i \in 1..Len(graph) :
         /\ graph'[i].fullText = AppendedAgain(i, "fullText")
         /\ graph'[i].summary = IF impl = ImplPlain
                                  THEN AppendedAgain(i, "summary")
                                  ELSE graph[i].summary
         /\ graph'[i].fullText = graph[i].fullText
              <=> AllEmpty(Appended(i, "fullText"))
         /\ graph[i].graph.merged = <<>> =>
              /\ graph'[i].summary = graph[i].summary
              /\ graph'[i].fullText = graph[i].fullText]_vars

\* after the second run one top-level commit holds the text of its merged
\* commit twice, and another, which has no merged commit, holds its own text
C24_Witness ==
  /\ pc = "consolidated twice"
  /\ \E i \in 1..Len(graph) :
       /\ graph[i].graph.merged # <<>>
       /\ Len(graph[i].fullText) > Len(Consolidated(i, "fullText", impl = ImplPlain))
  /\ \E i \in 1..Len(graph) :
       /\ graph[i].graph.merged = <<>>
       /\ graph[i].fullText = Trim(InputLog(graph[i].revision).fullText)
       /\ graph[i].fullText # <<>>

\* C25: simpleTopLevelGraph applied to the list it returned returns the
\* same sequence of revisions, each with an empty graph.merged list.
C25_SameTopLevelAgain ==
  [][(pc = "graphed" /\ pc' \in {"graphed twice", "threw"}) =>
       /\ pc' = "graphed twice"
       /\ Len(graph') = Len(graph)
       /\ \A i \in 1..Len(graph) :
            /\ graph'[i].revision = graph[i].revision
            /\ graph'[i].graph.merged = <<>>]_vars

\* the second call has returned two top-level commits of an input in which
\* the first commit merged a commit that is not on the top level
C25_Witness ==
  /\ pc = "graphed twice"
  /\ Len(graph) >= 2
  /\ \E r \in NonMainline : r \in Range(ParentsOf(graph[1].revision))


----------------------------------------------------------------------------
(* simpleTopLevelGraph step by step: one step is one turn of the while     *)
(* loop of the mainline walk, or one call of relatedLogs, one turn of its  *)
(* forEach over related, or its return.  The stack holds the calls of      *)
(* relatedLogs that have not returned, the innermost last.                 *)

\* most commits, and most parent links, of a list graphed step by step
MaxStepLogs == 3
MaxStepLinks == 3

\* the steps after which a call is no longer followed
MaxCallSteps == 40

\* a delete that leaves the index as it is
DeleteNothing(hashes, revision) == hashes

\* delete hashes[log.revision], delete hashes[hash]
Delete(hashes, revision) == hashes \ {revision}

\* the locals after logs.map(...): let log = logObjs[0]
NewCall(version, ls) ==
  LET logObjs == [i \in 1..Len(ls) |-> LogObj(version, ls[i])]
  IN [logObjs |-> logObjs,
      hashes |-> {logObjs[i].revision : i \in 1..Len(ls)},
      graph |-> <<>>,
      log |-> IF ls = <<>> THEN <<>> ELSE <<logObjs[1]>>,
      walked |-> FALSE,
      next |-> 1,
      stack |-> <<>>,
      visits |-> <<>>,
      steps |-> 0]

\* a call of relatedLogs(logItem) at its start
Frame(logItem) == [logItem |-> logItem, k |-> 1, out |-> <<>>]

\* one more commit of the range: a commit has at most two parents
ReadLogStep ==
  /\ pc = "log"
  /\ Len(logs) < MaxStepLogs
  /\ \E p \in ParentLists :
       /\ Len(p) <= 2
       /\ \A k \in 1..Len(p) : p[k] <= MaxStepLogs
       /\ Links(logs) + Len(p) <= MaxStepLinks
       /\ logs' = Append(logs, [revision |-> Len(logs) + 1, parents |-> p,
                                summary |-> PlainSummary(Len(logs) + 1),
                                fullText |-> PlainFullText(Len(logs) + 1)])
  /\ UNCHANGED <<stepVars, impl, pc, graph, log, ret, commits, filtered,
                 templateVars, jiraVars>>

\* simpleTopLevelGraph(response.all) up to the while loop
BeginGraph ==
  /\ pc = "log"
  /\ IF Throws(impl, logs)
       THEN pc' = "threw" /\ call' = call
       ELSE pc' = "graphing" /\ call' = NewCall(impl, logs)
  /\ UNCHANGED <<slack, impl, logs, graph, log, ret, commits, filtered,
                 templateVars, jiraVars>>

\* while (log) { graph.push(log); delete hashes[log.revision];
\* log = hashes[log.graph.prev]; } (one turn, or the end of the loop)
WalkStep ==
  /\ pc = "graphing"
  /\ ~call.walked
  /\ call.steps < MaxCallSteps
  /\ IF call.log = <<>>
       THEN call' = [call EXCEPT !.walked = TRUE, !.steps = @ + 1]
       ELSE LET l == call.log[1]
                h == Delete(call.hashes, l.revision)
            IN call' = [call EXCEPT
                          !.graph = Append(@, l),
                          !.hashes = h,
                          !.log = IF Has(h, l.graph.prev)
                                    THEN <<ObjOf(call.logObjs, l.graph.prev)>>
                                    ELSE <<>>,
                          !.visits = Append(@, l.revision),
                          !.steps = @ + 1]
  /\ UNCHANGED <<slack, impl, logs, pc, graph, log, ret, commits, filtered,
                 templateVars, jiraVars>>

\* graph.forEach: relatedLogs(topLevelLog) is called for the next commit
CallRelatedLogs ==
  /\ pc = "graphing"
  /\ call.walked
  /\ call.stack = <<>>
  /\ call.next <= Len(call.graph)
  /\ call.steps < MaxCallSteps
  /\ call' = [call EXCEPT !.stack = <<Frame(call.graph[call.next])>>,
                          !.steps = @ + 1]
  /\ UNCHANGED <<slack, impl, logs, pc, graph, log, ret, commits, filtered,
                 templateVars, jiraVars>>

\* related.forEach((hash) => ...) of the innermost call: one turn
VisitRelated ==
  /\ pc = "graphing"
  /\ call.stack # <<>>
  /\ call.steps < MaxCallSteps
  /\ LET n == Len(call.stack)
         f == call.stack[n]
     IN /\ f.k <= 2
        /\ LET hash == Related(f.logItem)[f.k]
           IN IF Has(call.hashes, hash)
                THEN LET relatedObj == ObjOf(call.logObjs, hash)
                     IN call' = [call EXCEPT
                                   !.hashes = Delete(@, hash[1]),
                                   !.stack = Append([@ EXCEPT ![n].out = Append(@, relatedObj)],
                                                    Frame(relatedObj)),
                                   !.visits = Append(@, relatedObj.revision),
                                   !.steps = @ + 1]
                ELSE call' = [call EXCEPT !.stack[n].k = @ + 1, !.steps = @ + 1]
  /\ UNCHANGED <<slack, impl, logs, pc, graph, log, ret, commits, filtered,
                 templateVars, jiraVars>>

\* return out of the innermost call: out = out.concat(relatedLogs(relatedObj))
\* in its caller, or topLevelLog.graph.merged = relatedLogs(topLevelLog)
ReturnRelated ==
  /\ pc = "graphing"
  /\ call.stack # <<>>
  /\ call.steps < MaxCallSteps
  /\ LET n == Len(call.stack)
         f == call.stack[n]
     IN /\ f.k > 2
        /\ IF n = 1
             THEN call' = [call EXCEPT !.stack = <<>>,
                                       !.graph[call.next].graph.merged = f.out,
                                       !.next = @ + 1,
                                       !.steps = @ + 1]
             ELSE call' = [call EXCEPT
                             !.stack = [SubSeq(@, 1, n - 1) EXCEPT
                                          ![n - 1].out = @ \o f.out,
                                          ![n - 1].k = @ + 1],
                             !.steps = @ + 1]
  /\ UNCHANGED <<slack, impl, logs, pc, graph, log, ret, commits, filtered,
                 templateVars, jiraVars>>

\* return graph
EndGraph ==
  /\ pc = "graphing"
  /\ call.walked
  /\ call.stack = <<>>
  /\ call.next > Len(call.graph)
  /\ graph' = call.graph
  /\ pc' = "graphed"
  /\ UNCHANGED <<stepVars, impl, logs, log, ret, commits, filtered,
                 templateVars, jiraVars>>

GraphSteps == WalkStep \/ CallRelatedLogs \/ VisitRelated \/ ReturnRelated \/ EndGraph

NextStep == ReadLogStep \/ BeginGraph \/ GraphSteps

\* the call is synchronous code: once begun it runs on
SpecStep == InitGraph /\ [][NextStep]_vars /\ WF_vars(GraphSteps)

----------------------------------------------------------------------------
(* What the claim about termination speaks of *)

\* no revision is visited twice
VisitedOnce ==
  \A a, b \in 1..Len(call.visits) : a # b => call.visits[a] # call.visits[b]

\* the steps a call can take on n commits: a turn of the while loop for
\* each and its end, and for each a call of relatedLogs, two turns and a
\* return
StepBound(n) == (n + 1) + 4 * n

\* the steps taken give what simpleTopLevelGraph gives as a whole
StepsAgree == pc = "graphed" => graph = simpleTopLevelGraph(impl, logs)

\* C26: simpleTopLevelGraph terminates for every finite input list, also
\* when the parents hold a self-reference or a cycle: the mainline walk and
\* the collection of merged commits visit a commit at most once, so a call
\* takes a bounded number of steps, and a call that has begun returns.
C26_Terminates ==
  /\ [](pc = "graphing" => /\ VisitedOnce
                           /\ Len(call.visits) <= Len(logs)
                           /\ call.steps <= StepBound(Len(logs)))
  /\ (pc = "graphing") ~> (pc = "graphed")

\* a call has returned on commits that are their own parent or each
\* other's, and one of them was merged
C26_Witness ==
  /\ pc = "graphed"
  /\ \E i \in 1..Len(logs) : logs[i].revision \in Range(logs[i].parents)
  /\ \E i, j \in 1..Len(logs) :
       /\ i # j
       /\ logs[i].revision \in Range(logs[j].parents)
       /\ logs[j].revision \in Range(logs[i].parents)
  /\ \E i \in 1..Len(graph) : graph[i].graph.merged # <<>>


----------------------------------------------------------------------------
(* Slack.api.  cache and pending are objects of the module Slack.js, shared *)
(* by every Slack instance; a promise is the position of its fetch in the   *)
(* list of the fetches issued.                                              *)

\* most calls of Slack.api
MaxApiCalls == 4

Endpoints == {"users.list", "users.info"}

\* the method argument of the calls that send a GET request
GetMethods == {"GET", "get"}

\* method.toUpperCase()
MethodToUpperCase(method) == IF method = "get" THEN "GET" ELSE method

\* what a fetch can end with: a response with ok set, a response with ok not
\* set, the json null, or a rejection
Outcomes == {"ok", "error", "null", "failed"}

\* the module after loading, with config.slack.apiKey set or not
NewSlack(enabled) ==
  [enabled |-> enabled,
   cache |-> [url \in Endpoints |-> 0],
   pending |-> [url \in Endpoints |-> 0],
   fetches |-> <<>>,
   calls |-> <<>>]

\* method === 'GET'
IsGet(method) == method = "GET"

\* fetch(url, {method, body, headers}).then(...).then(...): pending[url]
Fetch(s, url, method) ==
  [s EXCEPT !.fetches = Append(@, [url |-> url, method |-> method, state |-> "pending"]),
            !.pending[url] = Len(s.fetches) + 1]

\* api(endpoint, method): the module after the call, with a record of what
\* the call found and what it returned
api(s, endpoint, method) ==
  LET cachable == MethodToUpperCase(method) = "GET"
      url == endpoint
      found == [url |-> url, method |-> method,
                cached |-> s.cache[url] # 0,
                pending |-> s.pending[url] # 0
                              /\ s.fetches[s.pending[url]].state = "pending"]
      Call(kind, promise) ==
        Append(s.calls, found @@ [returned |-> kind, promise |-> promise])
  IN IF ~s.enabled
       THEN [s EXCEPT !.calls = Call("not configured", 0)]
       ELSE IF method # "POST" /\ cachable /\ s.cache[url] # 0
              THEN [s EXCEPT !.calls = Call("cache", s.cache[url])]
              ELSE IF method # "POST" /\ IsGet(method) /\ s.pending[url] # 0
                     THEN [s EXCEPT !.calls = Call("pending", s.pending[url])]
                     ELSE [Fetch(s, url, method) EXCEPT
                             !.calls = Call("fetch", Len(s.fetches) + 1)]

\* the callbacks of the fetch: if (cachable && data && data.ok) cache[url] = data
Answer(s, p, outcome) ==
  LET f == s.fetches[p]
      cachable == MethodToUpperCase(f.method) = "GET"
  IN [s EXCEPT !.fetches[p].state = outcome,
               !.cache[f.url] = IF cachable /\ outcome = "ok" THEN p ELSE @]

InitApi ==
  /\ impl = ImplRevert
  /\ call = Null
  /\ logs = <<>>
  /\ pc = "slack"
  /\ graph = <<>>
  /\ log = NoLog
  /\ ret = Null
  /\ commits = <<>>
  /\ filtered = <<>>
  /\ IdleTemplate
  /\ IdleJira
  /\ \E enabled \in BOOLEAN : slack = NewSlack(enabled)

\* some Slack instance calls api(endpoint) or api(endpoint, method)
Api ==
  /\ pc = "slack"
  /\ Len(slack.calls) < MaxApiCalls
  /\ \E endpoint \in Endpoints, method \in GetMethods :
       slack' = api(slack, endpoint, method)
  /\ UNCHANGED <<call, impl, logs, pc, graph, log, ret, commits, filtered,
                 templateVars, jiraVars>>

\* a fetch ends
FetchAnswer ==
  /\ pc = "slack"
  /\ \E p \in 1..Len(slack.fetches), outcome \in Outcomes :
       /\ slack.fetches[p].state = "pending"
       /\ slack' = Answer(slack, p, outcome)
  /\ UNCHANGED <<call, impl, logs, pc, graph, log, ret, commits, filtered,
                 templateVars, jiraVars>>

NextApi == Api \/ FetchAnswer

SpecApi == InitApi /\ [][NextApi]_vars

----------------------------------------------------------------------------
(* What the claim about Slack.api speaks of *)

FetchesOf(url) == {p \in 1..Len(slack.fetches) : slack.fetches[p].url = url}

----------------------------------------------------------------------------
(* Slack.splitUpMessage.  A text is the sequence of its runs, a run being  *)
(* a character and the number of times it is repeated; neighbouring runs   *)
(* hold different characters, so that equal texts are equal sequences.     *)

MSG_SIZE_LIMIT == 4000

\* most lines of a message
MaxLines == 3

Run(c, n) == IF n = 0 THEN <<>> ELSE <<[c |-> c, n |-> n]>>

\* s + t
Concat(s, t) ==
  IF s = <<>>
    THEN t
    ELSE IF t = <<>>
           THEN s
           ELSE IF s[Len(s)].c = t[1].c
                  THEN (SubSeq(s, 1, Len(s) - 1)
                          \o <<[c |-> t[1].c, n |-> s[Len(s)].n + t[1].n]>>)
                         \o Tail(t)
                  ELSE s \o t

\* s.length
RECURSIVE Length(_)
Length(s) == IF s = <<>> THEN 0 ELSE Head(s).n + Length(Tail(s))

\* s.substr(0, k)
RECURSIVE Take(_, _)
Take(s, k) ==
  IF s = <<>> \/ k <= 0
    THEN <<>>
    ELSE IF Head(s).n >= k
           THEN Run(Head(s).c, k)
           ELSE <<Head(s)>> \o Take(Tail(s), k - Head(s).n)

\* s.substr(k)
RECURSIVE Drop(_, _)
Drop(s, k) ==
  IF s = <<>> \/ k <= 0
    THEN s
    ELSE IF Head(s).n > k
           THEN Run(Head(s).c, Head(s).n - k) \o Tail(s)
           ELSE Drop(Tail(s), k - Head(s).n)

\* s.trim()
RECURSIVE TrimText(_)
TrimText(s) ==
  IF s # <<>> /\ Head(s).c \in WhiteSpace
    THEN TrimText(Tail(s))
    ELSE IF s # <<>> /\ s[Len(s)].c \in WhiteSpace
           THEN TrimText(SubSeq(s, 1, Len(s) - 1))
           ELSE s

\* text.split('\n'), with the line begun and the lines ended so far
RECURSIVE SplitLines(_, _, _)
SplitLines(s, line, lines) ==
  IF s = <<>>
    THEN Append(lines, line)
    ELSE IF Head(s).c = NL
           THEN SplitLines(Tail(s), <<>>,
                           Append(lines, line) \o [i \in 1..(Head(s).n - 1) |-> <<>>])
           ELSE SplitLines(Tail(s), Concat(line, <<Head(s)>>), lines)

\* const continuation = '...'
Continuation == Run(DOT, 3)

\* while (line.length > 0) { ... messages.push(last); }
RECURSIVE CutLine(_, _, _)
CutLine(line, limit, messages) ==
  IF Length(line) = 0
    THEN messages
    ELSE LET last == TrimText(Take(line, limit))
             rest == TrimText(Drop(line, limit))
         IN IF Length(rest) > 0
              THEN CutLine(Concat(Continuation, rest), limit,
                           Append(messages, Concat(last, Continuation)))
              ELSE CutLine(rest, limit, Append(messages, last))

\* the callback of lines.forEach(...), on block and messages
SplitLine(acc, line) ==
  LET tmpBlock == Concat(Concat(acc.block, line), Run(NL, 1))
      limit == MSG_SIZE_LIMIT - Length(Continuation)
  IN IF Length(tmpBlock) <= MSG_SIZE_LIMIT
       THEN [acc EXCEPT !.block = tmpBlock]
       ELSE IF Length(acc.block) > 0
              THEN [block |-> line, messages |-> Append(acc.messages, line)]
              ELSE [acc EXCEPT !.messages = CutLine(line, limit, @)]

RECURSIVE SplitEach(_, _)
SplitEach(acc, lines) ==
  IF lines = <<>> THEN acc ELSE SplitEach(SplitLine(acc, Head(lines)), Tail(lines))

splitUpMessage(text) ==
  IF Length(text) <= MSG_SIZE_LIMIT
    THEN <<text>>
    ELSE SplitEach([block |-> <<>>, messages |-> <<>>],
                   SplitLines(text, <<>>, <<>>)).messages

\* the letter of which the i-th line of a message is made
Letter(i) == <<"a", "b", "c", "d", "e">>[i]

\* the lines a message is made of: an empty line, short lines, lines that
\* fill a chunk, lines that are longer, and a long line with blanks where
\* it is cut
LinesOf(c) ==
  {<<>>, Run(c, 1), Run(c, 3000), Run(c, 3997), Run(c, 4000), Run(c, 4001),
   Run(c, 8000), (Run(c, 3996) \o Run(SP, 2)) \o Run(c, 5)}

\* lines.join('\n')
RECURSIVE Join(_)
Join(lines) ==
  IF lines = <<>>
    THEN <<>>
    ELSE IF Len(lines) = 1
           THEN Head(lines)
           ELSE Concat(Concat(Head(lines), Run(NL, 1)), Join(Tail(lines)))

\* the state of Slack.js with a message to split or to post
NewMessage(enabled) ==
  NewSlack(enabled) @@ [lines |-> <<>>, text |-> <<>>, chunks |-> <<>>,
                        next |-> 0, result |-> "none"]

InitSplit ==
  /\ impl = ImplRevert
  /\ call = Null
  /\ logs = <<>>
  /\ pc = "message"
  /\ graph = <<>>
  /\ log = NoLog
  /\ ret = Null
  /\ commits = <<>>
  /\ filtered = <<>>
  /\ IdleTemplate
  /\ IdleJira
  /\ slack = NewMessage(TRUE)

\* one more line of the message
AddLineOf(maxLines) ==
  /\ pc = "message"
  /\ Len(slack.lines) < maxLines
  /\ \E line \in LinesOf(Letter(Len(slack.lines) + 1)) :
       slack' = [slack EXCEPT !.lines = Append(@, line),
                              !.text = Join(Append(slack.lines, line))]
  /\ UNCHANGED <<call, impl, logs, pc, graph, log, ret, commits, filtered,
                 templateVars, jiraVars>>

AddLine == AddLineOf(MaxLines)

SplitUpMessage ==
  /\ pc = "message"
  /\ slack' = [slack EXCEPT !.chunks = splitUpMessage(slack.text)]
  /\ pc' = "split"
  /\ UNCHANGED <<call, impl, logs, graph, log, ret, commits, filtered,
                 templateVars, jiraVars>>

NextSplit == AddLine \/ SplitUpMessage

SpecSplit == InitSplit /\ [][NextSplit]_vars

----------------------------------------------------------------------------
(* What the claims about splitUpMessage speak of *)

\* C29: every chunk splitUpMessage returns is at most MSG_SIZE_LIMIT
\* characters long, and a text that is no longer than the limit is returned
\* as one chunk, unchanged.
C29_ChunksFit ==
  pc = "split" =>
    /\ \A n \in 1..Len(slack.chunks) : Length(slack.chunks[n]) <= MSG_SIZE_LIMIT
    /\ Length(slack.text) <= MSG_SIZE_LIMIT => slack.chunks = <<slack.text>>

\* the letters of a text in their order, without blanks, newlines and dots
RECURSIVE LettersOf(_)
LettersOf(s) ==
  IF s = <<>>
    THEN <<>>
    ELSE IF Head(s).c \in WhiteSpace \cup {DOT}
           THEN LettersOf(Tail(s))
           ELSE Concat(<<Head(s)>>, LettersOf(Tail(s)))

\* C30: splitUpMessage loses no content: the chunks of a text longer than
\* the limit hold every line of the text, whole or cut into pieces marked
\* with '...', in the order of the text; so the letters of the chunks, read
\* in order, are the letters of the text.
C30_NoContentLost ==
  (pc = "split" /\ Length(slack.text) > MSG_SIZE_LIMIT) =>
    LettersOf(Join(slack.chunks)) = LettersOf(slack.text)


----------------------------------------------------------------------------
(* Slack.postMessage: the chunks of the text are sent by a chain of        *)
(* promises, chunks.reduce((promise, text) => promise.then(() =>           *)
(* sendChunk(text)), Promise.resolve()).                                   *)

\* most lines of a message that is posted
MaxPostLines == 2

PostEndpoint == "chat.postMessage"

\* the module with a message to post: cache and pending are plain objects
\* and take the URL of chat.postMessage as a key too
NewPost(enabled) ==
  [NewMessage(enabled) EXCEPT
     !.cache = [url \in Endpoints \cup {PostEndpoint} |-> 0],
     !.pending = [url \in Endpoints \cup {PostEndpoint} |-> 0]]
    @@ [sent |-> <<>>]

\* the response of sendChunk's callback: it throws
ChunkThrowsNever(outcome) == FALSE

\* if (response && !response.ok) throw response.error; and a fetch that
\* fails rejects the promise of api before the callback
ChunkThrows(outcome) == outcome \in {"error", "failed"}

\* sendChunk(text): self.api('chat.postMessage', 'POST', {text, ...})
sendChunk(s, text) ==
  LET t == api(s, PostEndpoint, "POST")
  IN [t EXCEPT !.sent = Append(@, [text |-> text, fetch |-> Len(t.fetches)])]

\* promise.then(() => sendChunk(text)) for the chunk after chunk k, or the
\* end of the chain
ThenSendChunk(s, k) ==
  IF k < Len(s.chunks)
    THEN [sendChunk(s, s.chunks[k + 1]) EXCEPT !.next = k + 1]
    ELSE [s EXCEPT !.result = "resolved"]

\* postMessage(text, channel), up to the first fetch
postMessage(s) ==
  IF Length(s.text) = 0
    THEN [s EXCEPT !.result = "rejected"]
    ELSE IF ~s.enabled
           THEN [s EXCEPT !.result = "resolved"]
           ELSE ThenSendChunk([s EXCEPT !.chunks = splitUpMessage(s.text),
                                        !.result = "pending"], 0)

InitPost ==
  /\ impl = ImplRevert
  /\ call = Null
  /\ logs = <<>>
  /\ pc = "message"
  /\ graph = <<>>
  /\ log = NoLog
  /\ ret = Null
  /\ commits = <<>>
  /\ filtered = <<>>
  /\ IdleTemplate
  /\ IdleJira
  /\ \E enabled \in BOOLEAN : slack = NewPost(enabled)

AddPostLine == AddLineOf(MaxPostLines)

PostMessage ==
  /\ pc = "message"
  /\ slack' = postMessage(slack)
  /\ pc' = IF slack'.result = "pending" THEN "posting" ELSE "posted"
  /\ UNCHANGED <<call, impl, logs, graph, log, ret, commits, filtered,
                 templateVars, jiraVars>>

\* the fetch of the chunk sent last settles, and the chain goes on
PostAnswer ==
  /\ pc = "posting"
  /\ \E outcome \in Outcomes :
       LET p == slack.sent[slack.next].fetch
           s == Answer(slack, p, outcome)
       IN /\ slack.fetches[p].state = "pending"
          /\ slack' = IF ChunkThrows(outcome)
                        THEN [s EXCEPT !.result = "rejected"]
                        ELSE ThenSendChunk(s, slack.next)
  /\ pc' = IF slack'.result = "pending" THEN "posting" ELSE "posted"
  /\ UNCHANGED <<call, impl, logs, graph, log, ret, commits, filtered,
                 templateVars, jiraVars>>

NextPost == AddPostLine \/ PostMessage \/ PostAnswer

SpecPost == InitPost /\ [][NextPost]_vars

----------------------------------------------------------------------------
(* What the claim about postMessage speaks of *)

Posting == pc \in {"posting", "posted"}

\* the state of the fetch that carried the k-th chunk sent
Response(k) == slack.fetches[slack.sent[k].fetch].state

\* C28: postMessage sends the chunks in their order, a chunk only after the
\* response to the chunk before it has arrived; and when the response to a
\* chunk is not ok, no later chunk is sent and the promise returned rejects.
C28_ChunksInOrder ==
  Posting =>
    /\ Len(slack.sent) <= Len(slack.chunks)
    /\ \A k \in 1..Len(slack.sent) :
         /\ slack.sent[k].text = slack.chunks[k]
         /\ slack.fetches[slack.sent[k].fetch].url = PostEndpoint
         /\ k > 1 => Response(k - 1) # "pending"
         /\ Response(k) = "error" =>
              Len(slack.sent) = k /\ slack.result = "rejected"
    /\ slack.result = "resolved" /\ slack.enabled =>
         Len(slack.sent) = Len(slack.chunks)

\* a message of at least three chunks, of which the second was answered
\* with an error
C28_Witness ==
  /\ pc = "posted"
  /\ Len(slack.chunks) >= 3
  /\ Len(slack.sent) = 2
  /\ Response(1) = "ok"
  /\ Response(2) = "error"
  /\ slack.result = "rejected"

====
